---- MODULE Spec2Model ----
(***************************************************************************)
(* A model of the fleshrecord bridge.                                      *)
(*                                                                         *)
(* The report scheduler (services/scheduler_service.py): its loop threads, *)
(* the per-user and per-cadence checks of a tick, the generation and       *)
(* delivery of a report, start()/stop() and a process restart (Spec,       *)
(* SpecBoot, SpecRestart), and the checks called on their own (SpecCheck). *)
(* The retry wrapper (utils/retry_decorator.py) around any function and    *)
(* around add_transaction (SpecRetry), and get_budget_limits with its      *)
(* three wrapped strategies (services/firefly_service.py, SpecBudget).     *)
(* The request handlers, each called on its own: BudgetHandler on top of   *)
(* get_budget_limits (SpecBudgetHandler), WebhookHandler.verify_signature  *)
(* (SpecSignature) and process_webhook_event (SpecWebhook), the API token  *)
(* check (security/token_validator.py, SpecToken), TransactionHandler's    *)
(* field normalization (SpecNormalize) and endpoint (SpecTransaction), and *)
(* get_transactions with its two AI-webhook callers (SpecTransactions).    *)
(* SimpleMetrics (utils/metrics.py) used by one caller (SpecMetrics) and   *)
(* shared by threads (SpecMetricsThreads), ReportService's                 *)
(* generate_<cadence>_report (SpecReport), the two notification messages   *)
(* of the WebhookHandler (SpecMessage), the user configuration store       *)
(* (models/user_config.py, SpecStore), and the scheduler with a single     *)
(* start() and fair threads for what follows a stop() (SpecStop).          *)
(*                                                                         *)
(* Time is a wall clock counted in slots; SlotsPerMinute slots make one    *)
(* minute, so the 60 seconds of time.sleep(60) and of the idempotency      *)
(* guard are SlotsPerMinute slots.  The calendar is a scaled-down one      *)
(* (short hours, days, weeks, months and years) with the structure of the  *)
(* real one: slot 0 is 00:00 of a Monday that is the first day of the      *)
(* first month of year 0.                                                  *)
(***************************************************************************)
EXTENDS Integers, Sequences, FiniteSets, TLC

\* ------------------------------------------------------------- bounds ----
SlotsPerMinute == 2
MinutesPerHour == 2
HoursPerDay    == 2
DaysPerWeek    == 3
DaysPerMonth   == 2
MonthsPerYear  == 2
HorizonDays    == 2      \* the clock stops after this many days
MaxThreads     == 2      \* loop threads one process may create
MaxRestarts    == 1      \* process restarts in a run
MaxGenDelay    == 1      \* slots a report generation may take
MaxSendDelay   == 1      \* slots a webhook delivery may take

SlotsPerDay == SlotsPerMinute * MinutesPerHour * HoursPerDay
MaxTime     == HorizonDays * SlotsPerDay

\* ----------------------------------------------------------- calendar ----
\* datetime attributes of a clock value t
MinuteOf(t)  == (t \div SlotsPerMinute) % MinutesPerHour
HourOf(t)    == (t \div (SlotsPerMinute * MinutesPerHour)) % HoursPerDay
DateOf(t)    == t \div SlotsPerDay                      \* .date(), as an ordinal
WeekdayOf(t) == DateOf(t) % DaysPerWeek                 \* .weekday(), 0 = Monday
DayOf(t)     == (DateOf(t) % DaysPerMonth) + 1          \* .day
MonthOf(t)   == ((DateOf(t) \div DaysPerMonth) % MonthsPerYear) + 1   \* .month
YearOf(t)    == DateOf(t) \div (DaysPerMonth * MonthsPerYear)         \* .year

None == -1

Users    == <<"u1", "u2">>                 \* list_users(), in iteration order
UserSet  == {Users[i] : i \in 1..Len(Users)}
Cadences == <<"daily", "weekly", "monthly", "yearly">>
CadSet   == {Cadences[i] : i \in 1..Len(Cadences)}
Keys     == UserSet \X CadSet              \* task_key "{user_id}_{report_type}"
Threads  == 1..MaxThreads

VARIABLES
    clock,            \* datetime.now()
    cfg,              \* the stored UserConfig of each user
    running,          \* SchedulerService.running
    joining,          \* the caller of stop() is in its join of the loop thread
    scheduler_thread, \* SchedulerService.scheduler_thread (0 = None)
    last_check_time,  \* SchedulerService.last_check_time
    nthreads,         \* threads created by this process so far
    pc,               \* where each loop thread is
    current_time,     \* _check_and_execute_reports: current_time
    ui,               \* index of the user being processed
    ci,               \* index of the cadence being checked
    now,              \* _execute_report_task: now
    due,              \* end of the thread's sleep, or latest end of its call
    sendOk,           \* whether the delivery in progress will succeed
    caught,           \* the for loop's except clause ended the user before this one
    handed,           \* history: messages handed to send_webhook_message, this period
    recent,           \* history: moment of a key's hand-over in the last 60 s
    restarts,         \* history: restarts in the current period, per cadence
    nrestarts,        \* history: restarts so far
    chk,              \* a call of one _check_<cadence>_report on its own
    wrapper,          \* the frame of a call of a retry_on_failure wrapper
    calls,            \* history: the outcomes of the wrapped function's calls
    sleeps,           \* history: the lengths of the wrapper's sleeps
    tx,               \* add_transaction: the fields of transaction_data that are set
    budgetCall,       \* the frame of a call of get_budget_limits
    invoked,          \* history: the strategies get_budget_limits has called
    budgetReq,        \* a request to the BudgetHandler and its response
    handlerCall       \* a call of a handler method: its arguments and its outcome

schedVars == <<clock, cfg, running, joining, scheduler_thread, last_check_time, nthreads,
               pc, current_time, ui, ci, now, due, sendOk, caught>>
histVars  == <<handed, recent, restarts, nrestarts>>
checkVars == <<chk>>
callVars  == <<wrapper, calls, sleeps, tx, budgetCall, invoked>>
handlerVars == <<budgetReq, handlerCall>>
nonSched  == <<checkVars, callVars, handlerVars>>   \* what the scheduler leaves alone
vars      == <<schedVars, histVars, nonSched>>

\* ------------------------------------------------------ configuration ----
\* ReportConfig of models/user_config.py, with the two UserConfig fields the
\* scheduler reads.  A time string "HH:MM" is the pair <<HH, MM>>; any other
\* sequence is a string that does not parse.
ReportCfg(dify, rep, on, tm, wd, md, ym, yd) ==
    [ dify_enabled   |-> dify,     report_config   |-> rep,
      daily_enabled  |-> "daily" \in on,   daily_time   |-> tm,
      weekly_enabled |-> "weekly" \in on,  weekly_day   |-> wd, weekly_time  |-> tm,
      monthly_enabled|-> "monthly" \in on, monthly_day  |-> md, monthly_time |-> tm,
      yearly_enabled |-> "yearly" \in on,  yearly_month |-> ym, yearly_day   |-> yd,
      yearly_time    |-> tm ]

LastMinute == <<HoursPerDay - 1, MinutesPerHour - 1>>   \* "23:59"

\* the configurations a run may start from: the first user has one cadence
\* enabled, the second the daily one
ConfigChoices ==
    { ReportCfg(TRUE, TRUE, {"daily"},   LastMinute, 1, 1, 1, 1),
      ReportCfg(TRUE, TRUE, {"weekly"},  <<0, 1>>,   2, 1, 1, 1),
      ReportCfg(TRUE, TRUE, {"monthly"}, <<0, 1>>,   1, 1, 1, 1),
      ReportCfg(TRUE, TRUE, {"yearly"},  LastMinute, 1, 1, 1, 1) }
OtherChoices ==
    { ReportCfg(TRUE, TRUE, {"daily"}, <<0, 1>>, 1, 1, 1, 1) }

\* ------------------------------------------------- scheduler: functions ----
\* _parse_time: "HH:MM" -> (hour, minute), (9, 0) when the string does not parse
ParseTime(time_str) == IF Len(time_str) = 2 THEN time_str ELSE <<9, 0>>

\* _same_week: the Mondays of the two weeks are the same date
SameWeek(date1, date2) ==
    (DateOf(date1) - WeekdayOf(date1)) = (DateOf(date2) - WeekdayOf(date2))

\* _should_execute_task with the day of the month in the place of the date
ShouldExecuteTaskByDayOfMonth(last_execution, cur, target_time, report_type) ==
    LET time_matches == HourOf(cur) = target_time[1] /\ MinuteOf(cur) = target_time[2]
    IN  IF ~time_matches THEN FALSE
        ELSE IF last_execution # None /\ report_type = "daily"
                /\ DayOf(last_execution) = DayOf(cur) THEN FALSE
        ELSE IF last_execution # None /\ report_type = "weekly"
                /\ SameWeek(last_execution, cur) THEN FALSE
        ELSE IF last_execution # None /\ report_type = "monthly"
                /\ YearOf(last_execution) = YearOf(cur)
                /\ MonthOf(last_execution) = MonthOf(cur) THEN FALSE
        ELSE IF last_execution # None /\ report_type = "yearly"
                /\ YearOf(last_execution) = YearOf(cur) THEN FALSE
        ELSE TRUE

\* _should_execute_task
ShouldExecuteTask(last_execution, cur, target_time, report_type) ==
    LET time_matches == HourOf(cur) = target_time[1] /\ MinuteOf(cur) = target_time[2]
    IN  IF ~time_matches THEN FALSE
        ELSE IF last_execution # None /\ report_type = "daily"
                /\ DateOf(last_execution) = DateOf(cur) THEN FALSE
        ELSE IF last_execution # None /\ report_type = "weekly"
                /\ SameWeek(last_execution, cur) THEN FALSE
        ELSE IF last_execution # None /\ report_type = "monthly"
                /\ YearOf(last_execution) = YearOf(cur)
                /\ MonthOf(last_execution) = MonthOf(cur) THEN FALSE
        ELSE IF last_execution # None /\ report_type = "yearly"
                /\ YearOf(last_execution) = YearOf(cur) THEN FALSE
        ELSE TRUE

\* the enabled flag each _check_<cadence>_report returns early on
CadenceEnabled(c, rc) ==
    CASE c = "daily"   -> rc.daily_enabled
      [] c = "weekly"  -> rc.weekly_enabled
      [] c = "monthly" -> rc.monthly_enabled
      [] c = "yearly"  -> rc.yearly_enabled

\* _check_daily_report .. _check_yearly_report: whether _execute_report_task is called
CheckDailyReport(rc, last, cur) ==
    ShouldExecuteTask(last, cur, ParseTime(rc.daily_time), "daily")
\* _check_weekly_report without the conversion to the zero-based weekday
CheckWeeklyReportOneBased(rc, last, cur) ==
    WeekdayOf(cur) = rc.weekly_day
    /\ ShouldExecuteTask(last, cur, ParseTime(rc.weekly_time), "weekly")
CheckWeeklyReport(rc, last, cur) ==
    LET target_weekday == rc.weekly_day - 1
    IN  WeekdayOf(cur) = target_weekday
        /\ ShouldExecuteTask(last, cur, ParseTime(rc.weekly_time), "weekly")
CheckMonthlyReport(rc, last, cur) ==
    DayOf(cur) = rc.monthly_day
    /\ ShouldExecuteTask(last, cur, ParseTime(rc.monthly_time), "monthly")
CheckYearlyReport(rc, last, cur) ==
    MonthOf(cur) = rc.yearly_month /\ DayOf(cur) = rc.yearly_day
    /\ ShouldExecuteTask(last, cur, ParseTime(rc.yearly_time), "yearly")

CheckReport(c, rc, last, cur) ==
    CadenceEnabled(c, rc) /\
    CASE c = "daily"   -> CheckDailyReport(rc, last, cur)
      [] c = "weekly"  -> CheckWeeklyReport(rc, last, cur)
      [] c = "monthly" -> CheckMonthlyReport(rc, last, cur)
      [] c = "yearly"  -> CheckYearlyReport(rc, last, cur)

\* the idempotency guard of _execute_report_task: fired less than 60 s ago
GuardSuppresses(last_time, t_now) ==
    last_time # None /\ (t_now - last_time) < SlotsPerMinute

\* the length of time.sleep(60)
SleepSlots == SlotsPerMinute

\* the calendar period of cadence c that holds t (day, week, month, year)
PeriodOf(c, t) ==
    CASE c = "daily"   -> DateOf(t)
      [] c = "weekly"  -> DateOf(t) \div DaysPerWeek
      [] c = "monthly" -> DateOf(t) \div DaysPerMonth
      [] c = "yearly"  -> DateOf(t) \div (DaysPerMonth * MonthsPerYear)

\* --------------------------------------------------- scheduler: state ----
NoThread == [t \in Threads |-> 0]

\* SchedulerService.__init__, in a process started at 00:00 of day 0
SchedInit ==
    /\ clock = 0
    /\ running = FALSE
    /\ joining = FALSE
    /\ scheduler_thread = 0
    /\ last_check_time = [k \in Keys |-> None]
    /\ nthreads = 0
    /\ pc = [t \in Threads |-> "none"]
    /\ current_time = NoThread /\ ui = NoThread /\ ci = NoThread
    /\ now = NoThread /\ due = NoThread
    /\ sendOk = [t \in Threads |-> FALSE]
    /\ caught = [t \in Threads |-> FALSE]
    /\ handed = [k \in Keys |-> 0]
    /\ recent = [k \in Keys |-> None]
    /\ restarts = [c \in CadSet |-> 0]
    /\ nrestarts = 0

NoCall == [phase |-> "none"]

\* no wrapper is in a call, get_budget_limits is not in a call
NoException == [type |-> "none", id |-> 0]
V(is, total, current, status, code, error) ==
    [is |-> is, total_limit |-> total, current_limit |-> current,
     status |-> status, code |-> code, error |-> error]
NoValue == V("", 0, 0, "", 0, "")
NoIO    == [kind |-> "none", status |-> 0, amounts |-> <<>>, found |-> FALSE,
            auto |-> 0, json |-> {}]
NoOutcome == [kind |-> "none", value |-> NoValue, exc |-> NoException, io |-> NoIO]
NoFrame == [func |-> "none", max_attempts |-> 0, delay |-> 0, pc |-> "idle",
            attempt |-> 0, last_exception |-> NoException, out |-> NoOutcome]
NoBudgetCall == [pc |-> "idle", i |-> 0, result |-> NoValue]

CallsIdle ==
    /\ wrapper = NoFrame /\ calls = <<>> /\ sleeps = <<>> /\ tx = {}
    /\ budgetCall = NoBudgetCall /\ invoked = <<>>

\* no handler has a request
NoResponse == [http |-> 0, body |-> NoValue]
NoBudgetReq == [pc |-> "idle", via |-> "", budget_id |-> FALSE, response |-> NoResponse]
NoHandlerCall == [pc |-> "idle"]
HandlersIdle == budgetReq = NoBudgetReq /\ handlerCall = NoHandlerCall

\* nothing but the scheduler is at work
Idle == chk = NoCall /\ CallsIdle /\ HandlersIdle

Init ==
    /\ SchedInit
    /\ cfg \in {f \in [UserSet -> ConfigChoices \cup OtherChoices] :
                   f["u1"] \in ConfigChoices /\ f["u2"] \in OtherChoices}
    /\ Idle

Alive(t) == pc[t] \notin {"none", "done"}     \* Thread.is_alive()

\* the thread is in a sleep or a call that has time left
Blocked(t) == pc[t] \in {"sleep", "generate", "send"} /\ clock < due[t]

\* the locals of a thread that has left its tick
Rest(t, where, until) ==
    /\ pc' = [pc EXCEPT ![t] = where]
    /\ due' = [due EXCEPT ![t] = until]
    /\ current_time' = [current_time EXCEPT ![t] = 0]
    /\ ui' = [ui EXCEPT ![t] = 0]
    /\ ci' = [ci EXCEPT ![t] = 0]
    /\ now' = [now EXCEPT ![t] = 0]
    /\ caught' = [caught EXCEPT ![t] = FALSE]

\* the for loop takes the next user
StepUser(t, after_exception) ==
    /\ pc' = [pc EXCEPT ![t] = "user"]
    /\ ui' = [ui EXCEPT ![t] = ui[t] + 1]
    /\ ci' = [ci EXCEPT ![t] = 0]
    /\ now' = [now EXCEPT ![t] = 0]
    /\ due' = [due EXCEPT ![t] = 0]
    /\ caught' = [caught EXCEPT ![t] = after_exception]
    /\ UNCHANGED current_time

\* the body of the for loop is over, or a continue was taken
NextUser(t) == StepUser(t, FALSE)

\* an except clause around the for loop instead: the tick is over
OnUserExceptionEndsTick(t) == Rest(t, "sleep", clock + SleepSlots)

\* except Exception of the for loop: logged, and the loop takes the next user
OnUserException(t) == StepUser(t, TRUE)

\* the first cadence from the i-th on whose _check_<cadence>_report does not
\* return at once because its enabled flag is off (0: there is none)
FirstEnabledFrom(u, i) ==
    LET S == {j \in i..Len(Cadences) : CadenceEnabled(Cadences[j], cfg[u])}
    IN  IF S = {} THEN 0 ELSE CHOOSE j \in S : \A m \in S : j <= m

\* _check_<cadence>_report has returned: the checks of the cadences that are
\* switched off return at once, so the thread is at the next enabled cadence,
\* or at the next user
NextCadence(t) ==
    IF FirstEnabledFrom(Users[ui[t]], ci[t] + 1) # 0
    THEN /\ pc' = [pc EXCEPT ![t] = "check"]
         /\ ci' = [ci EXCEPT ![t] = FirstEnabledFrom(Users[ui[t]], ci[t] + 1)]
         /\ now' = [now EXCEPT ![t] = 0]
         /\ due' = [due EXCEPT ![t] = 0]
         /\ UNCHANGED <<ui, current_time, caught>>
    ELSE NextUser(t)

\* except Exception of _execute_report_task: logged, and the task returns
OnTaskException(t) == NextCadence(t)

\* -------------------------------------------------- scheduler: actions ----
\* start(): a no-op while running, else one more loop thread
Start ==
    /\ ~joining
    /\ IF running
       THEN UNCHANGED <<running, scheduler_thread, nthreads, pc>>
       ELSE /\ nthreads < MaxThreads
            /\ running' = TRUE
            /\ nthreads' = nthreads + 1
            /\ scheduler_thread' = nthreads + 1
            /\ pc' = [pc EXCEPT ![nthreads + 1] = "loop"]
    /\ UNCHANGED <<clock, cfg, joining, last_check_time, current_time, ui, ci, now,
                   due, sendOk, caught, histVars, nonSched>>

\* stop() up to its join: clears the flag and, with a loop thread alive, joins
\* it for at most 5 s; the join is over at once when the thread is in a sleep
\* or a call that outlasts it
Stop ==
    /\ ~joining
    /\ running' = FALSE
    /\ joining' = (scheduler_thread # 0 /\ Alive(scheduler_thread)
                     /\ ~Blocked(scheduler_thread))
    /\ UNCHANGED <<clock, cfg, scheduler_thread, last_check_time, nthreads, pc,
                   current_time, ui, ci, now, due, sendOk, caught, histVars, nonSched>>

\* the join of stop() returns: the thread has ended, or the 5 s have passed
\* with the thread in a sleep or a call
JoinReturns ==
    /\ joining
    /\ ~Alive(scheduler_thread) \/ Blocked(scheduler_thread)
    /\ joining' = FALSE
    /\ UNCHANGED <<clock, cfg, scheduler_thread, running, last_check_time, nthreads,
                   pc, current_time, ui, ci, now, due, sendOk, caught, histVars,
                   nonSched>>

\* _run_scheduler with while True in the place of while self.running
LoopHeadForever(t) ==
    /\ pc[t] = "loop"
    /\ \/ /\ pc' = [pc EXCEPT ![t] = "user"]
          /\ current_time' = [current_time EXCEPT ![t] = clock]
          /\ ui' = [ui EXCEPT ![t] = 1]
          /\ UNCHANGED <<ci, now, due, caught>>
       \/ Rest(t, "sleep", clock + SleepSlots)
    /\ UNCHANGED <<clock, cfg, running, joining, scheduler_thread, last_check_time, nthreads,
                   sendOk, histVars, nonSched>>

\* _run_scheduler: while self.running; _check_and_execute_reports reads the
\* clock and lists the users, or raises and the loop sleeps
LoopHead(t) ==
    /\ pc[t] = "loop"
    /\ IF ~running
       THEN Rest(t, "done", 0)
       ELSE \/ /\ pc' = [pc EXCEPT ![t] = "user"]
               /\ current_time' = [current_time EXCEPT ![t] = clock]
               /\ ui' = [ui EXCEPT ![t] = 1]
               /\ UNCHANGED <<ci, now, due, caught>>
            \/ Rest(t, "sleep", clock + SleepSlots)      \* list_users raised
    /\ UNCHANGED <<clock, cfg, running, joining, scheduler_thread, last_check_time, nthreads,
                   sendOk, histVars, nonSched>>

\* the body of the for loop up to the four checks: get_user_config and the
\* two continue tests; after the last user the tick is over and the loop sleeps
LoadUser(t) ==
    /\ pc[t] = "user"
    /\ IF ui[t] > Len(Users)
       THEN Rest(t, "sleep", clock + SleepSlots)
       ELSE \/ /\ cfg[Users[ui[t]]].dify_enabled
               /\ cfg[Users[ui[t]]].report_config
               /\ FirstEnabledFrom(Users[ui[t]], 1) # 0
               /\ pc' = [pc EXCEPT ![t] = "check"]
               /\ ci' = [ci EXCEPT ![t] = FirstEnabledFrom(Users[ui[t]], 1)]
               /\ UNCHANGED <<ui, current_time, now, due, caught>>
            \/ NextUser(t)                \* nothing to do: continue
            \/ OnUserException(t)         \* get_user_config raised
    /\ UNCHANGED <<clock, cfg, running, joining, scheduler_thread, last_check_time, nthreads,
                   sendOk, histVars, nonSched>>

\* one _check_<cadence>_report: calls _execute_report_task, returns, or raises
Check(t) ==
    /\ pc[t] = "check"
    /\ LET u == Users[ui[t]]
           c == Cadences[ci[t]]
       IN  \/ /\ CheckReport(c, cfg[u], last_check_time[<<u, c>>], current_time[t])
              /\ pc' = [pc EXCEPT ![t] = "generate"]
              /\ due' = [due EXCEPT ![t] = clock + MaxGenDelay]
              /\ UNCHANGED <<ui, ci, current_time, now, caught>>
           \/ /\ ~CheckReport(c, cfg[u], last_check_time[<<u, c>>], current_time[t])
              /\ NextCadence(t)
           \/ OnUserException(t)      \* the check raised
    /\ UNCHANGED <<clock, cfg, running, joining, scheduler_thread, last_check_time, nthreads,
                   sendOk, histVars, nonSched>>

\* _execute_report_task from the return of generate_<cadence>_report to the call
\* of send_webhook_message: no report or an exception ends the task; else the
\* idempotency guard reads now and last_check_time; ok is the delivery's result
Generated(t) ==
    /\ pc[t] = "generate"
    /\ LET k == <<Users[ui[t]], Cadences[ci[t]]>>
       IN  \/ /\ NextCadence(t)                  \* no report: a warning
              /\ UNCHANGED <<sendOk, histVars>>
           \/ /\ OnTaskException(t)              \* the generation raised
              /\ UNCHANGED <<sendOk, histVars>>
           \/ /\ GuardSuppresses(last_check_time[k], clock)
              /\ NextCadence(t)
              /\ UNCHANGED <<sendOk, histVars>>
           \/ /\ ~GuardSuppresses(last_check_time[k], clock)
              /\ \E ok \in BOOLEAN : sendOk' = [sendOk EXCEPT ![t] = ok]
              /\ pc' = [pc EXCEPT ![t] = "send"]
              /\ now' = [now EXCEPT ![t] = clock]
              /\ due' = [due EXCEPT ![t] = clock + MaxSendDelay]
              /\ handed' = [handed EXCEPT ![k] = @ + 1]
              /\ recent' = [recent EXCEPT ![k] = clock]
              /\ UNCHANGED <<ui, ci, current_time, caught, restarts, nrestarts>>
    /\ UNCHANGED <<clock, cfg, running, joining, scheduler_thread, last_check_time, nthreads,
                   nonSched>>

\* _execute_report_task recording the time whatever the delivery returned
SentAlways(t) ==
    /\ pc[t] = "send"
    /\ LET k == <<Users[ui[t]], Cadences[ci[t]]>>
       IN  last_check_time' = [last_check_time EXCEPT ![k] = now[t]]
    /\ sendOk' = [sendOk EXCEPT ![t] = FALSE]
    /\ IF sendOk[t] THEN NextCadence(t) ELSE OnTaskException(t)
    /\ UNCHANGED <<clock, cfg, running, joining, scheduler_thread, nthreads, histVars,
                   nonSched>>

\* send_webhook_message has returned: on success the key's time is recorded;
\* a failed delivery is logged and, like one that raised, records nothing
Sent(t) ==
    /\ pc[t] = "send"
    /\ LET k == <<Users[ui[t]], Cadences[ci[t]]>>
       IN  last_check_time' = IF sendOk[t]
                              THEN [last_check_time EXCEPT ![k] = now[t]]
                              ELSE last_check_time
    /\ sendOk' = [sendOk EXCEPT ![t] = FALSE]
    /\ IF sendOk[t] THEN NextCadence(t) ELSE OnTaskException(t)
    /\ UNCHANGED <<clock, cfg, running, joining, scheduler_thread, nthreads, histVars,
                   nonSched>>

\* time.sleep(60) returns
Wake(t) ==
    /\ pc[t] = "sleep"
    /\ clock >= due[t]
    /\ Rest(t, "loop", 0)
    /\ UNCHANGED <<clock, cfg, running, joining, scheduler_thread, last_check_time, nthreads,
                   sendOk, histVars, nonSched>>

\* whether thread t lets the clock move: it is not there, asleep, or in a call
Waits(t) == ~Alive(t) \/ Blocked(t)

\* the history counters of a period end with the period
Roll(count, c, t) == IF PeriodOf(c, t + 1) = PeriodOf(c, t) THEN count ELSE 0

\* the clock moves on by one slot, which is more than the 5 s of a join
Advance ==
    /\ clock < MaxTime
    /\ ~joining
    /\ \A t \in Threads : Waits(t)
    /\ clock' = clock + 1
    /\ handed' = [k \in Keys |-> Roll(handed[k], k[2], clock)]
    /\ recent' = [k \in Keys |-> IF recent[k] # None /\ clock + 1 - recent[k] < SlotsPerMinute
                                  THEN recent[k] ELSE None]
    /\ restarts' = [c \in CadSet |-> Roll(restarts[c], c, clock)]
    /\ UNCHANGED <<cfg, running, joining, scheduler_thread, last_check_time, nthreads, pc,
                   current_time, ui, ci, now, due, sendOk, caught, nrestarts,
                   nonSched>>

\* the process is restarted: a new SchedulerService, no thread, nothing recorded
Restart ==
    /\ nrestarts < MaxRestarts
    /\ nrestarts' = nrestarts + 1
    /\ restarts' = [c \in CadSet |-> restarts[c] + 1]
    /\ running' = FALSE
    /\ joining' = FALSE
    /\ scheduler_thread' = 0
    /\ last_check_time' = [k \in Keys |-> None]
    /\ nthreads' = 0
    /\ pc' = [t \in Threads |-> "none"]
    /\ current_time' = NoThread /\ ui' = NoThread /\ ci' = NoThread
    /\ now' = NoThread /\ due' = NoThread
    /\ sendOk' = [t \in Threads |-> FALSE]
    /\ caught' = [t \in Threads |-> FALSE]
    /\ recent' = [k \in Keys |-> None]
    /\ UNCHANGED <<clock, cfg, handed, nonSched>>

Next ==
    \/ Start
    \/ Stop
    \/ JoinReturns
    \/ \E t \in Threads : LoopHead(t)
    \/ \E t \in Threads : LoadUser(t)
    \/ \E t \in Threads : Check(t)
    \/ \E t \in Threads : Generated(t)
    \/ \E t \in Threads : Sent(t)
    \/ \E t \in Threads : Wake(t)
    \/ Advance

Spec == Init /\ [][Next]_vars

\* the process as start_with_scheduler.py runs it: start() once at boot, one
\* loop thread, stop() at shutdown
NextBoot ==
    \/ Start /\ (running \/ nthreads = 0)
    \/ Stop
    \/ JoinReturns
    \/ LoopHead(1) \/ LoadUser(1) \/ Check(1) \/ Generated(1) \/ Sent(1) \/ Wake(1)
    \/ Advance

SpecBoot == Init /\ [][NextBoot]_vars

\* the same, in a process that may be restarted
NextRestart == NextBoot \/ Restart
SpecRestart == Init /\ [][NextRestart]_vars

\* ------------------------------------------ scheduler: properties ----
InTick(t) == pc[t] \in {"user", "check", "generate", "send"}

\* C1: within one period of its cadence (day, week, month, year) at most one
\* report of a user and cadence is handed to the Notification Handler
C1_AtMostOncePerPeriod == \A k \in Keys : handed[k] <= 1

\* C4: two hand-overs of the same key to the Notification Handler are never
\* less than 60 seconds apart: a report is handed over only when the key has no
\* hand-over in the 60 seconds before
C4_HandOversSixtySecondsApart ==
    [][\A k \in Keys : handed'[k] = handed[k] + 1 => recent[k] = None]_vars

\* C5: an exception in the processing of a user (loading the configuration, a
\* check, the generation, the delivery) neither keeps the remaining users of the
\* tick from being evaluated nor ends the loop: a tick goes through the users
\* one by one and is over only after the last of them, and the thread ends only
\* at the head of its loop, with running false
C5_ExceptionsSkipNoUserAndEndNoLoop ==
    [][ /\ (InTick(1) /\ ~InTick(1)') => (pc[1] = "user" /\ ui[1] > Len(Users) /\ pc'[1] = "sleep")
        /\ (InTick(1) /\ InTick(1)') => (ui'[1] = ui[1] \/ (ui'[1] = ui[1] + 1 /\ pc'[1] = "user"))
        /\ (pc[1] # "done" /\ pc'[1] = "done") => (pc[1] = "loop" /\ ~running)
      ]_vars

\* the first user's processing ended in the except clause of the for loop and
\* the second user's cadence is being checked in the same tick
C5_Witness ==
    /\ caught[1] /\ pc[1] = "check" /\ ui[1] = 2
    /\ running

\* C6: at most one loop thread is executing ticks at any time
C6_OneThreadTicks == Cardinality({t \in Threads : InTick(t)}) <= 1

\* C7: with k restarts in a period, a key is handed to the Notification
\* Handler at most k + 1 times in that period
C7_RestartsBoundDuplicates == \A k \in Keys : handed[k] <= restarts[k[2]] + 1

\* ------------------------------------------ the checks, called alone ----
CheckWeeks == 2           \* the weeks the arguments of a call are drawn from

CheckTimes   == 0..(CheckWeeks * DaysPerWeek * SlotsPerDay - 1)
CheckTargets == {LastMinute, <<0, 1>>}

\* the arguments of one call of _check_<cadence>_report: the cadence, its
\* configured time and weekly_day, the key's entry of last_check_time (never
\* later than the present) and current_time
CheckArgs ==
    { a \in [ phase : {"args"}, report_type : CadSet, target : CheckTargets,
              day : 1..DaysPerWeek, last : {None} \cup CheckTimes, cur : CheckTimes ] :
         /\ a.report_type # "weekly" => a.day = 1
         /\ a.last <= a.cur }

InitCheck ==
    /\ SchedInit
    /\ cfg = [u \in UserSet |-> ReportCfg(TRUE, TRUE, {"daily"}, <<0, 1>>, 1, 1, 1, 1)]
    /\ chk \in CheckArgs
    /\ CallsIdle /\ HandlersIdle

\* _check_<cadence>_report(user_id, report_config, current_time)
CallCheck ==
    /\ chk.phase = "args"
    /\ LET rc == ReportCfg(TRUE, TRUE, {chk.report_type}, chk.target, chk.day, 1, 1, 1)
       IN  chk' = [ phase |-> "done", report_type |-> chk.report_type,
                    target |-> chk.target, day |-> chk.day,
                    last |-> chk.last, cur |-> chk.cur,
                    should   |-> ShouldExecuteTask(chk.last, chk.cur,
                                                   ParseTime(chk.target), chk.report_type),
                    executed |-> CheckReport(chk.report_type, rc, chk.last, chk.cur) ]
    /\ UNCHANGED <<schedVars, histVars, callVars, handlerVars>>

NextCheck == CallCheck

SpecCheck == InitCheck /\ [][NextCheck]_vars

\* the two instants are on the same calendar date
OnSameDate(a, b) ==
    \E d \in 0..(CheckWeeks * DaysPerWeek) :
        {a, b} \subseteq (d * SlotsPerDay)..((d + 1) * SlotsPerDay - 1)

\* the two instants are in the same Monday-to-Sunday week
InSameWeek(a, b) ==
    \E w \in 0..CheckWeeks :
        {a, b} \subseteq (w * DaysPerWeek * SlotsPerDay)..((w + 1) * DaysPerWeek * SlotsPerDay - 1)

\* the call's current hour and minute are the configured ones
TimeMatches == HourOf(chk.cur) = chk.target[1] /\ MinuteOf(chk.cur) = chk.target[2]

\* C2: for the daily cadence _should_execute_task returns true exactly when the
\* current hour:minute is the configured one and the key has no recorded
\* timestamp on the current calendar date; so a check on a day that already has
\* a recorded firing returns false even when the hour:minute matches again
C2_DailyExactlyOncePerDate ==
    (chk.phase = "done" /\ chk.report_type = "daily") =>
        (chk.should <=> (TimeMatches /\ ~(chk.last # None /\ OnSameDate(chk.last, chk.cur))))

\* a second check in the matching minute of a day that has its firing recorded
C2_Witness ==
    /\ chk.phase = "done" /\ chk.report_type = "daily"
    /\ chk.last # None /\ OnSameDate(chk.last, chk.cur) /\ chk.last < chk.cur
    /\ TimeMatches
    /\ ~chk.should

\* C3: the weekly task is executed only if the current weekday is weekly_day - 1
\* (1 = Monday), the current hour:minute is weekly_time, and the key has no
\* recorded timestamp in the Monday-to-Sunday week of the current time; two
\* instants are in the same week iff the Mondays of their weeks are the same date
C3_WeeklyOnlyOnItsDayOncePerWeek ==
    (chk.phase = "done" /\ chk.report_type = "weekly") =>
        /\ chk.executed => /\ WeekdayOf(chk.cur) = chk.day - 1
                           /\ TimeMatches
                           /\ (chk.last = None \/ ~InSameWeek(chk.last, chk.cur))
        /\ chk.last # None => (SameWeek(chk.last, chk.cur) <=> InSameWeek(chk.last, chk.cur))

\* the weekly task is executed with a timestamp of the week before on record
C3_Witness ==
    /\ chk.phase = "done" /\ chk.report_type = "weekly"
    /\ chk.last # None /\ ~InSameWeek(chk.last, chk.cur)
    /\ chk.day = DaysPerWeek
    /\ chk.executed

\* ------------------------------------------------- retry_on_failure ----
MaxAttempts == 4          \* the largest max_attempts a wrapper is built with

DefaultAttempts == 3      \* retry_on_failure: max_attempts = 3
DefaultDelay    == 2      \* retry_on_failure: delay = 1.0, in half seconds
Delays          == {1, DefaultDelay}

\* the default of exceptions, (requests.RequestException,), and its subclasses
RequestExceptions == {"RequestException", "ConnectionError", "Timeout", "HTTPError"}

\* an except clause that catches every exception
ListedAny(e) == e.type = e.type

\* except exceptions as e: whether the clause catches e
Listed(e) == e.type \in RequestExceptions

Return(v, io) == [kind |-> "return", value |-> v, exc |-> NoException, io |-> io]
Raise(type, n, io) ==
    [kind |-> "raise", value |-> NoValue, exc |-> [type |-> type, id |-> n], io |-> io]

\* wrapper(*args, **kwargs) is entered
Frame(func, max_attempts, delay) ==
    [func |-> func, max_attempts |-> max_attempts, delay |-> delay, pc |-> "try",
     attempt |-> 0, last_exception |-> NoException, out |-> NoOutcome]

\* the fields of transaction_data and the names add_transaction sends them under
TxFields == {"date", "amount", "description", "source_account",
             "destination_account", "category", "budget", "tags"}
FireflyName(f) ==
    CASE f = "source_account"      -> "source_name"
      [] f = "destination_account" -> "destination_name"
      [] f = "category"            -> "category_name"
      [] f = "budget"              -> "budget_name"
      [] OTHER                     -> f

\* firefly_transaction once the None values are removed: type is always set,
\* and so is amount, the str() of whatever raw_data holds
FireflyTransaction(data) ==
    {"type", "amount"} \cup {FireflyName(f) : f \in data}

\* the ways the POST of add_transaction can end: a 2xx reply, a 4xx/5xx reply,
\* no reply (a network-level error), a reply whose body is no JSON
PostResults(data) ==
    { [kind |-> k, status |-> st, amounts |-> <<>>, found |-> FALSE, auto |-> 0,
       json |-> FireflyTransaction(data)] :
         <<k, st>> \in { <<"ok", 201>>, <<"status", 404>>, <<"status", 422>>,
                          <<"status", 500>>, <<"network", 0>>, <<"garbled", 200>> } }

\* bool(response) of requests: Response.__bool__ is Response.ok
ResponseTruthy(status) == status < 400

\* APIResponseBuilder
SuccessResponse(message)   == V("envelope", 0, 0, "success", 0, message)
ErrorResponse(error, code) == V("envelope", 0, 0, "error", code, error)

\* the body of add_transaction for a POST that ends as r: every exception is
\* caught in the body and turned into an error envelope
AddTransaction(r) ==
    CASE r.kind = "ok"      -> Return(SuccessResponse("added"), r)
      [] r.kind = "status"  ->
            Return(ErrorResponse("HTTP", IF ResponseTruthy(r.status) THEN r.status ELSE 500), r)
      [] r.kind = "network" -> Return(ErrorResponse("request", 500), r)
      [] OTHER              -> Return(ErrorResponse("unknown", 500), r)

\* the ways a GET of a budget strategy can end: no reply, a 4xx/5xx reply, a
\* reply that does not parse, or data: the amounts of the budget's limits, or
\* whether the budget is among the available ones and its auto_budget_amount
Amounts == {<<>>, <<0>>, <<-5, 2>>, <<7, 3>>}
GetResults(what) ==
    { [kind |-> k, status |-> st, amounts |-> <<>>, found |-> FALSE, auto |-> 0,
       json |-> {}] : <<k, st>> \in {<<"network", 0>>, <<"status", 404>>, <<"garbled", 200>>} }
    \cup
    IF what = "limits"
    THEN { [kind |-> "data", status |-> 200, amounts |-> a, found |-> a # <<>>,
            auto |-> 0, json |-> {}] : a \in Amounts }
    ELSE { [kind |-> "data", status |-> 200, amounts |-> <<>>, found |-> fa[1],
            auto |-> fa[2], json |-> {}] :
              fa \in {<<FALSE, 0>>, <<TRUE, 0>>, <<TRUE, 25>>} }

RECURSIVE Sum(_)
Sum(q) == IF q = <<>> THEN 0 ELSE Head(q) + Sum(Tail(q))
Max(q) == CHOOSE x \in {q[i] : i \in 1..Len(q)} : \A i \in 1..Len(q) : q[i] <= x

NoneValue == V("None", 0, 0, "", 0, "")
Limits(total, current) == V("limits", total, current, "", 0, "")

\* what requests.get and raise_for_status raise for a GET that ends as r
GetRaises(r, n) ==
    CASE r.kind = "network" -> Raise("ConnectionError", n, r)
      [] r.kind = "status"  -> Raise("HTTPError", n, r)
      [] OTHER              -> Raise("ValueError", n, r)

\* _get_budget_limits_by_id and _get_budget_limits_from_all: None without a
\* limit of the budget, else the sum and the maximum of the amounts
LimitsOfData(r, n) ==
    IF r.kind # "data" THEN GetRaises(r, n)
    ELSE IF r.amounts = <<>> THEN Return(NoneValue, r)
    ELSE Return(Limits(Sum(r.amounts), Max(r.amounts)), r)

\* _get_available_budgets: None when the budget is not listed, else four times
\* its auto_budget_amount, or 1000 without one
AvailableBudget(r, n) ==
    IF r.kind # "data" THEN GetRaises(r, n)
    ELSE IF ~r.found THEN Return(NoneValue, r)
    ELSE LET fallback_limit == IF r.auto > 0 THEN r.auto * 4 ELSE 1000
         IN  Return(Limits(fallback_limit, fallback_limit), r)

\* the ways the n-th call of a wrapped function can end
Outcomes(func, n) ==
    CASE func = "func" ->
            {Return(V("value", 0, 0, "", 0, ""), NoIO)} \cup
            {Raise(type, n, NoIO) : type \in {"ConnectionError", "Timeout", "ValueError"}}
      [] func = "add_transaction" -> {AddTransaction(r) : r \in PostResults(tx)}
      [] func \in {"_get_budget_limits_by_id", "_get_budget_limits_from_all"} ->
            {LimitsOfData(r, n) : r \in GetResults("limits")}
      [] func = "_get_available_budgets" ->
            {AvailableBudget(r, n) : r \in GetResults("available")}

\* wrapper with delay * (attempt + 1) in the place of delay * (2 ** attempt)
HandleLinear(o) ==
    IF o.kind = "return" \/ ~Listed(o.exc)
    THEN /\ wrapper' = [wrapper EXCEPT !.pc = IF o.kind = "return" THEN "returned" ELSE "raised",
                                       !.out = o]
         /\ sleeps' = sleeps
    ELSE IF wrapper.attempt < wrapper.max_attempts - 1
    THEN /\ wrapper' = [wrapper EXCEPT !.pc = "sleep", !.last_exception = o.exc]
         /\ sleeps' = Append(sleeps, wrapper.delay * (wrapper.attempt + 1))
    ELSE /\ wrapper' = [wrapper EXCEPT !.pc = "raised", !.last_exception = o.exc,
                                       !.out = Raise(o.exc.type, o.exc.id, o.io)]
         /\ sleeps' = sleeps

\* wrapper, one pass of its for loop after func has ended as o: a value is
\* returned, an exception that is not listed propagates, a listed one is kept in
\* last_exception and followed by a sleep, or, in the last pass, by the end of
\* the loop and raise last_exception
Handle(o) ==
    IF o.kind = "return" \/ ~Listed(o.exc)
    THEN /\ wrapper' = [wrapper EXCEPT !.pc = IF o.kind = "return" THEN "returned" ELSE "raised",
                                       !.out = o]
         /\ sleeps' = sleeps
    ELSE IF wrapper.attempt < wrapper.max_attempts - 1
    THEN /\ wrapper' = [wrapper EXCEPT !.pc = "sleep", !.last_exception = o.exc]
         /\ sleeps' = Append(sleeps, wrapper.delay * (2 ^ wrapper.attempt))
    ELSE /\ wrapper' = [wrapper EXCEPT !.pc = "raised", !.last_exception = o.exc,
                                       !.out = Raise(o.exc.type, o.exc.id, o.io)]
         /\ sleeps' = sleeps

\* func(*args, **kwargs) is called, and the wrapper deals with how it ended
Attempt ==
    /\ wrapper.pc = "try"
    /\ \E o \in Outcomes(wrapper.func, Len(calls) + 1) :
          /\ calls' = Append(calls, o)
          /\ Handle(o)
    /\ UNCHANGED <<schedVars, histVars, checkVars, tx, budgetCall, invoked, handlerVars>>

\* time.sleep returns and the for loop goes into its next pass
Slept ==
    /\ wrapper.pc = "sleep"
    /\ wrapper' = [wrapper EXCEPT !.pc = "try", !.attempt = @ + 1]
    /\ UNCHANGED <<schedVars, histVars, checkVars, calls, sleeps, tx, budgetCall, invoked,
                   handlerVars>>

\* a call of a wrapped function: any function under any wrapper, or
\* add_transaction under its own
InitRetry ==
    /\ SchedInit
    /\ cfg = [u \in UserSet |-> ReportCfg(TRUE, TRUE, {"daily"}, <<0, 1>>, 1, 1, 1, 1)]
    /\ chk = NoCall /\ HandlersIdle
    /\ calls = <<>> /\ sleeps = <<>>
    /\ budgetCall = NoBudgetCall /\ invoked = <<>>
    /\ \/ /\ wrapper \in {Frame("func", n, d) : n \in 1..MaxAttempts, d \in Delays}
          /\ tx = {}
       \/ /\ wrapper = Frame("add_transaction", DefaultAttempts, DefaultDelay)
          /\ tx \in SUBSET TxFields

NextRetry == Attempt \/ Slept

SpecRetry == InitRetry /\ [][NextRetry]_vars

\* every call of the wrapped function so far has raised a listed exception
AlwaysFailed ==
    \A i \in 1..Len(calls) : calls[i].kind = "raise" /\ Listed(calls[i].exc)

\* d, 2d, 4d, ...: the first n sleeps of a wrapper with delay d
Backoff(n, d) == [i \in 1..n |-> d * 2 ^ (i - 1)]

\* C8: a function that raises a listed exception on every call is invoked
\* exactly max_attempts times; the wrapper sleeps delay * 2^i after the failed
\* attempt i = 0 .. max_attempts - 2 and not after the last one, and then
\* re-raises the exception of the last attempt
C8_RetryExhaustion ==
    (wrapper.func = "func" /\ AlwaysFailed) =>
        /\ Len(calls) <= wrapper.max_attempts
        /\ Len(sleeps) <= wrapper.max_attempts - 1
        /\ sleeps = SubSeq(Backoff(wrapper.max_attempts - 1, wrapper.delay), 1, Len(sleeps))
        /\ wrapper.pc = "sleep" => Len(sleeps) = Len(calls)
        /\ wrapper.pc = "try" => Len(sleeps) = Len(calls)
        /\ wrapper.pc # "returned"
        /\ wrapper.pc = "raised" =>
              /\ Len(calls) = wrapper.max_attempts
              /\ sleeps = Backoff(wrapper.max_attempts - 1, wrapper.delay)
              /\ wrapper.out.kind = "raise"
              /\ wrapper.out.exc = calls[wrapper.max_attempts].exc

\* a wrapper of four attempts or more has given up after sleeping d, 2d, 4d, ...
C8_Witness ==
    /\ wrapper.func = "func" /\ wrapper.max_attempts = MaxAttempts
    /\ wrapper.delay = DefaultDelay
    /\ AlwaysFailed
    /\ wrapper.pc = "raised"
    /\ Len(calls) = MaxAttempts
    /\ SubSeq(sleeps, 1, 3) = <<DefaultDelay, 2 * DefaultDelay, 4 * DefaultDelay>>

\* C9: add_transaction performs the POST at most 3 times when it fails with a
\* network-level error; when it is answered with a 4xx/5xx status it performs
\* it once and returns an error envelope whose code is the upstream status
C9_AddTransactionFailures ==
    (wrapper.func = "add_transaction" /\ wrapper.pc \in {"returned", "raised"}) =>
        /\ (\A i \in 1..Len(calls) : calls[i].io.kind = "network") =>
               Len(calls) <= DefaultAttempts
        /\ calls[1].io.kind = "status" =>
               /\ Len(calls) = 1
               /\ wrapper.pc = "returned"
               /\ wrapper.out.value.status = "error"
               /\ wrapper.out.value.code = calls[1].io.status

\* ------------------------------------------------ get_budget_limits ----
AvailableAttempts == 2    \* _get_available_budgets: max_attempts = 2
AvailableDelay    == 1    \* _get_available_budgets: delay = 0.5, in half seconds

strategies == <<"_get_budget_limits_by_id", "_get_budget_limits_from_all",
                "_get_available_budgets">>

\* the wrapper each strategy is decorated with
StrategyFrame(strategy) ==
    IF strategy = "_get_available_budgets"
    THEN Frame(strategy, AvailableAttempts, AvailableDelay)
    ELSE Frame(strategy, DefaultAttempts, DefaultDelay)

\* the test of get_budget_limits without the comparison with 0
GoodResultAnyDict(o) ==
    o.kind = "return" /\ o.value.is = "limits"

\* result and result.get('total_limit', 0) > 0, for a strategy that ended as o
GoodResult(o) ==
    o.kind = "return" /\ o.value.is = "limits" /\ o.value.total_limit > 0

InitBudget ==
    /\ SchedInit
    /\ cfg = [u \in UserSet |-> ReportCfg(TRUE, TRUE, {"daily"}, <<0, 1>>, 1, 1, 1, 1)]
    /\ chk = NoCall /\ HandlersIdle
    /\ wrapper = NoFrame /\ calls = <<>> /\ sleeps = <<>> /\ tx = {}
    /\ budgetCall = [pc |-> "loop", i |-> 1, result |-> NoValue]
    /\ invoked = <<>>

\* for strategy in strategies: result = strategy(budget_id, query_params)
CallStrategy ==
    /\ budgetCall.pc = "loop"
    /\ budgetCall.i <= Len(strategies)
    /\ wrapper' = StrategyFrame(strategies[budgetCall.i])
    /\ calls' = <<>> /\ sleeps' = <<>>
    /\ budgetCall' = [budgetCall EXCEPT !.pc = "strategy"]
    /\ UNCHANGED <<schedVars, histVars, checkVars, tx, invoked, handlerVars>>

\* the strategy has returned or raised: a positive total_limit is returned; an
\* exception is caught and, like any other result, followed by the next
\* strategy, or after the last one by the return of the zero limits
StrategyEnds ==
    /\ budgetCall.pc = "strategy"
    /\ wrapper.pc \in {"returned", "raised"}
    /\ invoked' = Append(invoked, [strategy |-> wrapper.func, out |-> wrapper.out,
                                   calls |-> Len(calls)])
    /\ budgetCall' =
          IF GoodResult(wrapper.out)
          THEN [pc |-> "returned", i |-> budgetCall.i, result |-> wrapper.out.value]
          ELSE IF budgetCall.i < Len(strategies)
          THEN [pc |-> "loop", i |-> budgetCall.i + 1, result |-> NoValue]
          ELSE [pc |-> "returned", i |-> budgetCall.i + 1, result |-> Limits(0, 0)]
    /\ wrapper' = NoFrame /\ calls' = <<>> /\ sleeps' = <<>>
    /\ UNCHANGED <<schedVars, histVars, checkVars, tx, handlerVars>>

NextBudget == CallStrategy \/ Attempt \/ Slept \/ StrategyEnds

SpecBudget == InitBudget /\ [][NextBudget]_vars

\* the strategy ended with a result whose total_limit is positive
YieldsPositive(rec) == rec.out.kind = "return" /\ rec.out.value.total_limit > 0

BudgetQueryParamsFields == {"start", "end", "budget_id", "include"}

\* an argument object that has the attributes _get_specific_budget reads
DatedParams == {"start_date", "end_date", "budget_id"}

\* the truth value of an if-test on a result: None is false, a dict is true
\* when it has a key, and the limits dict always has its two keys
DictTruthy(v) == v.is # "None"

HttpResponse(http, body) == [http |-> http, body |-> body]

InitBudgetHandler ==
    /\ SchedInit
    /\ cfg = [u \in UserSet |-> ReportCfg(TRUE, TRUE, {"daily"}, <<0, 1>>, 1, 1, 1, 1)]
    /\ chk = NoCall /\ CallsIdle /\ HandlersIdle

\* the first statements of _get_specific_budget for arguments with the
\* attributes attrs: reading start_date or end_date of an object without it
\* raises AttributeError, else get_budget_limits is called
EnterSpecificBudget(attrs, via) ==
    IF {"start_date", "end_date"} \subseteq attrs
    THEN /\ budgetReq' = [pc |-> "limits", via |-> via, budget_id |-> TRUE,
                          response |-> NoResponse]
         /\ budgetCall' = [pc |-> "loop", i |-> 1, result |-> NoValue]
    ELSE /\ budgetReq' =
              IF via = "endpoint"
              THEN [pc |-> "done", via |-> via, budget_id |-> TRUE,
                    response |-> HttpResponse(500, ErrorResponse("budgets", 500))]
              ELSE [pc |-> "raised", via |-> via, budget_id |-> TRUE,
                    response |-> NoResponse]
         /\ UNCHANGED budgetCall

\* get_budgets_endpoint: the arguments are a BudgetQueryParams; with a
\* budget_id _get_specific_budget is entered, and any exception is answered by
\* a 500; without one _get_all_budgets answers 200, or 500 when the Ledger fails
GetBudgetsEndpoint ==
    /\ budgetReq.pc = "idle"
    /\ \E budget_id \in BOOLEAN :
          IF budget_id
          THEN EnterSpecificBudget(BudgetQueryParamsFields, "endpoint")
          ELSE /\ \E http \in {200, 500} :
                     budgetReq' = [pc |-> "done", via |-> "endpoint", budget_id |-> FALSE,
                                   response |-> HttpResponse(http,
                                       IF http = 200 THEN SuccessResponse("budgets")
                                       ELSE ErrorResponse("budgets", 500))]
               /\ UNCHANGED budgetCall
    /\ UNCHANGED <<schedVars, histVars, checkVars, wrapper, calls, sleeps, tx, invoked, handlerCall>>

\* _get_specific_budget called with an object that has the attributes it reads
GetSpecificBudget ==
    /\ budgetReq.pc = "idle"
    /\ \E attrs \in {BudgetQueryParamsFields, DatedParams} :
          EnterSpecificBudget(attrs, "call")
    /\ UNCHANGED <<schedVars, histVars, checkVars, wrapper, calls, sleeps, tx, invoked, handlerCall>>

\* if result: success_response, 200; else: error_response(404), 404
SpecificBudgetResponds ==
    /\ budgetReq.pc = "limits"
    /\ budgetCall.pc = "returned"
    /\ budgetReq' = [budgetReq EXCEPT !.pc = "done", !.response =
          IF DictTruthy(budgetCall.result)
          THEN HttpResponse(200, SuccessResponse("limits"))
          ELSE HttpResponse(404, ErrorResponse("not found", 404))]
    /\ UNCHANGED <<schedVars, histVars, checkVars, callVars, handlerCall>>

NextBudgetHandler ==
    \/ GetBudgetsEndpoint
    \/ GetSpecificBudget
    \/ CallStrategy
    \/ Attempt
    \/ Slept
    \/ StrategyEnds
    \/ SpecificBudgetResponds

SpecBudgetHandler == InitBudgetHandler /\ [][NextBudgetHandler]_vars

\* C11: when a budget_id is supplied and the limit retrieval yields the zero
\* limits {total_limit: 0, current_limit: 0}, the handler answers with an
\* error envelope and status 404, not with a 200 success
C11_ZeroLimitIsNotFound ==
    (/\ budgetReq.pc = "done"
     /\ budgetReq.budget_id
     /\ budgetCall.pc = "returned"
     /\ budgetCall.result.total_limit = 0)
    => /\ budgetReq.response.http = 404
       /\ budgetReq.response.body.status = "error"

(***************************************************************************)
(* WebhookHandler.verify_signature.  A digest is the triple it was        *)
(* computed from, so that two digests are equal exactly when key,         *)
(* timestamp and body are: HMAC-SHA3-256 taken as injective.  A header is *)
(* the list of its comma-separated parts, a part the list of the pieces   *)
(* that split('=') makes of it.                                           *)
(***************************************************************************)

MaxStamp == 2
MaxParts == 2

Secrets    == {"", "k1", "k2", "k3"}      \* "" is the key of an unset secret
Timestamps == 1..MaxStamp
Bodies     == {"b1", "b2"}

\* hmac.new(key, f'{timestamp}.' + payload, sha3_256).hexdigest()
Hmac(key, timestamp, payload) == [key |-> key, t |-> timestamp, body |-> payload]

\* the parts a Signature header is made of: v1 with a digest, t with a
\* timestamp, another key, a part without '=' and a part with two
HeaderParts ==
    {<<"v1", Hmac(k, t, b)>> : k \in Secrets, t \in Timestamps, b \in Bodies}
    \cup {<<"t", t>> : t \in Timestamps}
    \cup {<<"x", 0>>, <<"v1">>, <<"t", 1, 1>>}

RECURSIVE Headers(_)
Headers(n) ==
    IF n = 0 THEN {<<>>}
    ELSE LET shorter == Headers(n - 1)
         IN  shorter \cup {Append(h, part) : h \in {x \in shorter : Len(x) = n - 1},
                                              part \in HeaderParts}

\* dict(part.split('=') for part in ...): the last value of each key
SignatureParts(header) ==
    [k \in {header[i][1] : i \in 1..Len(header)} |->
        header[CHOOSE i \in 1..Len(header) :
                  /\ header[i][1] = k
                  /\ \A j \in (i + 1)..Len(header) : header[j][1] # k][2]]

ComputeSignatureMatchPrimaryOnly(config, payload, timestamp, received_signature) ==
    Hmac(config.webhook_secret, timestamp, payload) = received_signature

\* _compute_signature_match: the digest under either secret is accepted
ComputeSignatureMatch(config, payload, timestamp, received_signature) ==
    \/ Hmac(config.webhook_secret, timestamp, payload) = received_signature
    \/ Hmac(config.webhook_secret_update, timestamp, payload) = received_signature

\* verify_signature: False for no header, for a header dict() cannot be built
\* from (the ValueError is caught), and for one without v1 or t
VerifySignature(config, payload, header) ==
    IF header = <<>> THEN FALSE
    ELSE IF \E i \in 1..Len(header) : Len(header[i]) # 2 THEN FALSE
    ELSE LET signature_parts == SignatureParts(header)
         IN  IF "v1" \notin DOMAIN signature_parts \/ "t" \notin DOMAIN signature_parts
             THEN FALSE
             ELSE ComputeSignatureMatch(config, payload, signature_parts["t"],
                                        signature_parts["v1"])

InitSignature ==
    /\ SchedInit
    /\ cfg = [u \in UserSet |-> ReportCfg(TRUE, TRUE, {"daily"}, <<0, 1>>, 1, 1, 1, 1)]
    /\ chk = NoCall /\ CallsIdle /\ budgetReq = NoBudgetReq
    /\ \E s2 \in {"", "k1", "k2"}, payload \in Bodies, header \in Headers(MaxParts) :
          handlerCall = [pc |-> "call",
                     config |-> [webhook_secret |-> "k1", webhook_secret_update |-> s2],
                     payload |-> payload, header |-> header, result |-> FALSE]

CallVerifySignature ==
    /\ handlerCall.pc = "call"
    /\ handlerCall' = [handlerCall EXCEPT !.pc = "done",
                      !.result = VerifySignature(handlerCall.config, handlerCall.payload,
                                                 handlerCall.header)]
    /\ UNCHANGED <<schedVars, histVars, checkVars, callVars, budgetReq>>

NextSignature == CallVerifySignature

SpecSignature == InitSignature /\ [][NextSignature]_vars

\* the header "v1=<digest under key of t and the payload>,t=<t>"
SignedHeader(key, t, payload) == <<<<"v1", Hmac(key, t, payload)>>, <<"t", t>>>>

\* C12: a header "v1=<sig>,t=<t>" whose sig is the digest of t and the body
\* under the primary or the rotation secret verifies; one whose sig is the
\* digest under any other key does not; a header lacking v1 or t does not
C12_SignatureAcceptsRotation ==
    handlerCall.pc = "done" =>
        LET s1 == handlerCall.config.webhook_secret
            s2 == handlerCall.config.webhook_secret_update
        IN  /\ \A k \in Secrets, t \in Timestamps :
                  handlerCall.header = SignedHeader(k, t, handlerCall.payload)
                      => (handlerCall.result <=> k \in {s1, s2})
            /\ (\/ \A i \in 1..Len(handlerCall.header) : handlerCall.header[i][1] # "v1"
                \/ \A i \in 1..Len(handlerCall.header) : handlerCall.header[i][1] # "t")
                   => ~handlerCall.result

\* a digest under the rotation secret, which is not the primary one, verified
C12_Witness ==
    /\ handlerCall.pc = "done"
    /\ handlerCall.config.webhook_secret_update = "k2"
    /\ handlerCall.header = SignedHeader("k2", 2, handlerCall.payload)
    /\ handlerCall.result

(***************************************************************************)
(* WebhookHandler.process_webhook_event.  abort() raises an HTTPException, *)
(* which is neither a ValidationError nor a ValueError.                   *)
(***************************************************************************)

DescriptionLimit == 255
valid_triggers == {"STORE_TRANSACTION", "UPDATE_TRANSACTION"}

\* the JSON bodies of a webhook request: the keys of the object, its trigger,
\* what content.transactions is, and of its first entry what it is, what its
\* amount is and how long its description is
WebhookPayloads ==
    [keys : SUBSET {"trigger", "content"},
     trigger : valid_triggers \cup {"DELETE_TRANSACTION"},
     transactions : {"absent", "notlist", "empty", "list"},
     first : {"dict", "string"},
     amount : {"None", "number", "text"},
     description : {0, DescriptionLimit, DescriptionLimit + 1}]

\* validate_webhook_payload and _validate_transaction_data: the exception they
\* end with, "none" for a payload that passes
ValidateWebhookPayload(data) ==
    IF {"trigger", "content"} \ data.keys # {} THEN "HTTPException"
    ELSE IF data.trigger \notin valid_triggers THEN "HTTPException"
    ELSE IF data.transactions \in {"absent", "notlist"} THEN "HTTPException"
    ELSE IF data.transactions = "empty" THEN "HTTPException"
    ELSE IF data.first # "dict" THEN "AttributeError"
    ELSE IF data.amount = "text" THEN "HTTPException"
    ELSE IF data.description > DescriptionLimit THEN "HTTPException"
    ELSE "none"

\* the except clauses of process_webhook_event: the first two call
\* error_response with a keyword it does not have, which raises TypeError
ExceptClause(exc) ==
    IF exc \in {"ValidationError", "ValueError"}
    THEN [kind |-> "raise", exc |-> "TypeError", value |-> NoValue]
    ELSE [kind |-> "return", exc |-> "none",
          value |-> ErrorResponse("Internal server error", 500)]

\* the try block: headers and signature unless skipped, then the payload
ProcessWebhookEvent(skip_signature, signature, data) ==
    IF ~skip_signature /\ signature = "absent" THEN ExceptClause("HTTPException")
    ELSE IF ~skip_signature /\ signature # "good"
    THEN [kind |-> "return", exc |-> "none",
          value |-> ErrorResponse("Invalid signature", 401)]
    ELSE IF ValidateWebhookPayload(data) # "none"
    THEN ExceptClause(ValidateWebhookPayload(data))
    ELSE [kind |-> "return", exc |-> "none", value |-> SuccessResponse("message")]

InitWebhook ==
    /\ SchedInit
    /\ cfg = [u \in UserSet |-> ReportCfg(TRUE, TRUE, {"daily"}, <<0, 1>>, 1, 1, 1, 1)]
    /\ chk = NoCall /\ CallsIdle /\ budgetReq = NoBudgetReq
    /\ \E skip_signature \in BOOLEAN, signature \in {"absent", "bad", "good"},
          data \in WebhookPayloads :
          handlerCall = [pc |-> "call", skip_signature |-> skip_signature,
                         signature |-> signature, data |-> data,
                         out |-> [kind |-> "none", exc |-> "none", value |-> NoValue]]

CallProcessWebhookEvent ==
    /\ handlerCall.pc = "call"
    /\ handlerCall' = [handlerCall EXCEPT !.pc = "done",
          !.out = ProcessWebhookEvent(handlerCall.skip_signature, handlerCall.signature,
                                      handlerCall.data)]
    /\ UNCHANGED <<schedVars, histVars, checkVars, callVars, budgetReq>>

NextWebhook == CallProcessWebhookEvent

SpecWebhook == InitWebhook /\ [][NextWebhook]_vars

\* the payload fails one of the validations the handler is to make
FailsValidation(data) ==
    \/ "trigger" \notin data.keys \/ "content" \notin data.keys
    \/ data.trigger \notin {"STORE_TRANSACTION", "UPDATE_TRANSACTION"}
    \/ data.transactions # "list"
    \/ data.first = "dict" /\ (data.amount = "text" \/ data.description > 255)

\* C13: process_webhook_event never raises; a signature that does not verify
\* yields a 401 error envelope, a payload that fails validation a 400 error
\* envelope, any other exception a 500 error envelope
C13_ErrorsMapToEnvelopes ==
    handlerCall.pc = "done" =>
        LET out == handlerCall.out
            checked == ~handlerCall.skip_signature
        IN  /\ out.kind = "return"
            /\ out.value.is = "envelope"
            /\ (checked /\ handlerCall.signature = "bad")
                  => (out.value.status = "error" /\ out.value.code = 401)
            /\ ((~checked \/ handlerCall.signature = "good")
                    /\ FailsValidation(handlerCall.data))
                  => (out.value.status = "error" /\ out.value.code = 400)
            /\ ((~checked \/ handlerCall.signature = "good")
                    /\ ~FailsValidation(handlerCall.data) /\ handlerCall.data.first # "dict")
                  => (out.value.status = "error" /\ out.value.code = 500)

(***************************************************************************)
(* TokenValidator and the require_api_token decorators.  A stored user    *)
(* file is the set of the keys of its JSON object and the value of its    *)
(* api_token key; an Authorization header is the list of its words.       *)
(***************************************************************************)

\* the fields of UserConfig: the constructor ignores any other key of the file
UserConfigFields ==
    {"user_id", "firefly_access_token", "webhook_url", "webhook_secret",
     "webhook_secret_update", "firefly_api_url", "notification_enabled",
     "language", "dify_config", "report_config"}
RequiredFields ==
    {"firefly_access_token", "webhook_url", "webhook_secret", "webhook_secret_update"}

Tokens == {"t1", "t2"}

UserFiles ==
    [exists : BOOLEAN,
     keys : {{}, RequiredFields, RequiredFields \cup {"api_token"}},
     api_token : Tokens \cup {""}]

\* get_user_config: None without a file or when UserConfig(**config_data)
\* raises ValidationError, else a UserConfig
GetUserConfig(file) ==
    IF ~file.exists \/ ~(RequiredFields \subseteq file.keys) THEN "None" ELSE "UserConfig"

NoResult == [kind |-> "none", value |-> FALSE, http |-> 0, exc |-> "none", invoked |-> FALSE]
Returns(value)  == [NoResult EXCEPT !.kind = "return", !.value = value]
Raises(exc)     == [NoResult EXCEPT !.kind = "raise", !.exc = exc]
Responds(http)  == [NoResult EXCEPT !.kind = "return", !.http = http]

\* validate_api_token: reading an attribute that is no field of the model
\* raises AttributeError
ValidateApiToken(file, provided_token) ==
    IF GetUserConfig(file) = "None" THEN Returns(FALSE)
    ELSE IF "api_token" \notin UserConfigFields THEN Raises("AttributeError")
    ELSE IF "api_token" \notin file.keys \/ file.api_token = "" THEN Returns(FALSE)
    ELSE Returns(file.api_token = provided_token)

Lower(word) == IF word \in {"Bearer", "BEARER", "bearer"} THEN "bearer" ELSE word

\* the Authorization headers: none, blank, and lists of words
AuthHeaders ==
    {[given |-> FALSE, words |-> <<>>], [given |-> TRUE, words |-> <<>>]}
    \cup {[given |-> TRUE, words |-> <<scheme>>] : scheme \in {"Bearer", "t1"}}
    \cup {[given |-> TRUE, words |-> <<scheme, t>>] :
              scheme \in {"Bearer", "bearer", "Basic"}, t \in Tokens}
    \cup {[given |-> TRUE, words |-> <<"Bearer", t, "x">>] : t \in Tokens}

\* extract_bearer_token: the second of exactly two words after "bearer"
ExtractBearerToken(authorization_header) ==
    IF Len(authorization_header.words) # 2
          \/ Lower(authorization_header.words[1]) # "bearer"
    THEN ""
    ELSE authorization_header.words[2]

\* decorated_function of require_api_token and require_api_token_with_user_id
RequireApiToken(user_id, auth_header, file) ==
    IF user_id = "" THEN Responds(401)
    ELSE IF ~auth_header.given THEN Responds(401)
    ELSE IF ExtractBearerToken(auth_header) = "" THEN Responds(401)
    ELSE LET valid == ValidateApiToken(file, ExtractBearerToken(auth_header))
         IN  IF valid.kind = "raise" THEN valid
             ELSE IF ~valid.value THEN Responds(403)
             ELSE [Responds(200) EXCEPT !.invoked = TRUE]

InitToken ==
    /\ SchedInit
    /\ cfg = [u \in UserSet |-> ReportCfg(TRUE, TRUE, {"daily"}, <<0, 1>>, 1, 1, 1, 1)]
    /\ chk = NoCall /\ CallsIdle /\ budgetReq = NoBudgetReq
    /\ \E op \in {"validate_api_token", "require_api_token"},
          user_id \in {"", "u1"}, auth_header \in AuthHeaders, file \in UserFiles,
          provided_token \in Tokens :
          handlerCall = [pc |-> "call", op |-> op, user_id |-> user_id,
                         auth_header |-> auth_header, file |-> file,
                         provided_token |-> provided_token, out |-> NoResult]

CallValidateApiToken ==
    /\ handlerCall.pc = "call" /\ handlerCall.op = "validate_api_token"
    /\ handlerCall' = [handlerCall EXCEPT !.pc = "done",
          !.out = ValidateApiToken(handlerCall.file, handlerCall.provided_token)]
    /\ UNCHANGED <<schedVars, histVars, checkVars, callVars, budgetReq>>

CallRequireApiToken ==
    /\ handlerCall.pc = "call" /\ handlerCall.op = "require_api_token"
    /\ handlerCall' = [handlerCall EXCEPT !.pc = "done",
          !.out = RequireApiToken(handlerCall.user_id, handlerCall.auth_header,
                                  handlerCall.file)]
    /\ UNCHANGED <<schedVars, histVars, checkVars, callVars, budgetReq>>

NextToken == CallValidateApiToken \/ CallRequireApiToken

SpecToken == InitToken /\ [][NextToken]_vars

\* the file of the user stores this api_token
Stores(file, token) ==
    file.exists /\ "api_token" \in file.keys /\ file.api_token = token

\* the header is "Bearer <token>", in any case of the scheme
WellFormed(auth_header) ==
    /\ auth_header.given
    /\ Len(auth_header.words) = 2
    /\ auth_header.words[1] \in {"Bearer", "bearer"}

\* C14: a request without X-User-ID gets 401; one with a missing or malformed
\* Authorization header gets 401; one with a well-formed bearer token that is
\* not the stored token of the user gets 403; the wrapped handler is invoked
\* only when the provided token equals the stored token of the user
C14_TokenRouteResponses ==
    (handlerCall.pc = "done" /\ handlerCall.op = "require_api_token") =>
        LET out == handlerCall.out
            header == handlerCall.auth_header
        IN  /\ handlerCall.user_id = "" => (out.kind = "return" /\ out.http = 401)
            /\ (handlerCall.user_id # "" /\ ~WellFormed(header))
                  => (out.kind = "return" /\ out.http = 401)
            /\ (handlerCall.user_id # "" /\ WellFormed(header)
                    /\ ~Stores(handlerCall.file, header.words[2]))
                  => (out.kind = "return" /\ out.http = 403)
            /\ out.invoked => (WellFormed(header) /\ Stores(handlerCall.file, header.words[2]))

\* C15: validate_api_token returns false, and does not raise, when the user
\* does not exist or the stored configuration has no api_token; it returns
\* true only when the configuration carries an api_token equal to the
\* provided token
C15_ValidateFailsClosed ==
    (handlerCall.pc = "done" /\ handlerCall.op = "validate_api_token") =>
        LET out == handlerCall.out
            file == handlerCall.file
        IN  /\ (~file.exists \/ "api_token" \notin file.keys \/ file.api_token = "")
                  => (out.kind = "return" /\ ~out.value)
            /\ (out.kind = "return" /\ out.value)
                  => Stores(file, handlerCall.provided_token)

(***************************************************************************)
(* TransactionHandler._validate_transaction_data: the field names of the  *)
(* transaction dict are normalized before TransactionRequest is built.    *)
(* A dict is a function from its keys; before the call the value of a key *)
(* is the name of the key, so that a copied value tells where it is from. *)
(***************************************************************************)

target_fields == <<"destination_name", "destination", "dest_account", "destination_bank",
                   "dest_bank", "target_account", "to_account">>

AliasKeys ==
    {target_fields[i] : i \in 1..Len(target_fields)}
    \cup {"destination_account", "source_name", "source_account", "budget_name", "budget",
          "category_name", "category"}

\* transaction_dict[k] = v
Put(d, k, v) == [x \in DOMAIN d \cup {k} |-> IF x = k THEN v ELSE d[x]]

SetFromAlways(d, target, field) ==
    IF field \in DOMAIN d THEN Put(d, target, d[field]) ELSE d

\* if field in transaction_dict and target not in transaction_dict: copy
SetFrom(d, target, field) ==
    IF field \in DOMAIN d /\ target \notin DOMAIN d THEN Put(d, target, d[field]) ELSE d

\* for field in target_fields: the first copy ends the loop
RECURSIVE MapDestination(_, _)
MapDestination(d, i) ==
    IF i > Len(target_fields) THEN d
    ELSE IF target_fields[i] \in DOMAIN d /\ "destination_account" \notin DOMAIN d
    THEN Put(d, "destination_account", d[target_fields[i]])
    ELSE MapDestination(d, i + 1)

\* a tags string is split at its commas into a list
SplitTags(d) ==
    IF "tags" \in DOMAIN d /\ d["tags"] = "a,b" THEN Put(d, "tags", "[a,b]") ELSE d

\* the statements before TransactionRequest(**transaction_dict), in the order
\* of the branch for a {"transactions": [...]} body and of that for a flat one
NormalizeTransaction(d, nested) ==
    IF nested
    THEN SetFrom(SplitTags(SetFrom(SetFrom(MapDestination(d, 1),
                     "budget", "budget_name"), "category", "category_name")),
                 "source_account", "source_name")
    ELSE SetFrom(MapDestination(SplitTags(SetFrom(SetFrom(d,
                     "budget", "budget_name"), "category", "category_name")), 1),
                 "source_account", "source_name")

InitNormalize ==
    /\ SchedInit
    /\ cfg = [u \in UserSet |-> ReportCfg(TRUE, TRUE, {"daily"}, <<0, 1>>, 1, 1, 1, 1)]
    /\ chk = NoCall /\ CallsIdle /\ budgetReq = NoBudgetReq
    /\ \E keys \in SUBSET AliasKeys, tags \in {"", "a,b", "[a,b]"}, nested \in BOOLEAN :
          LET body == [k \in keys \cup (IF tags = "" THEN {} ELSE {"tags"}) |->
                          IF k = "tags" THEN tags ELSE k]
          IN  handlerCall = [pc |-> "call", nested |-> nested, body |-> body,
                             transaction_dict |-> body]

CallNormalize ==
    /\ handlerCall.pc = "call"
    /\ handlerCall' = [handlerCall EXCEPT !.pc = "done",
          !.transaction_dict = NormalizeTransaction(@, handlerCall.nested)]
    /\ UNCHANGED <<schedVars, histVars, checkVars, callVars, budgetReq>>

NextNormalize == CallNormalize

SpecNormalize == InitNormalize /\ [][NextNormalize]_vars

\* C17: for the flat body and for the first entry of a transactions list, an
\* absent destination_account is set from the first present of
\* destination_name, destination, dest_account, destination_bank, dest_bank,
\* target_account, to_account; a present one is never changed; source_name,
\* budget_name and category_name likewise populate source_account, budget and
\* category only when those are absent
C17_FieldNormalization ==
    handlerCall.pc = "done" =>
        LET body == handlerCall.body
            d == handlerCall.transaction_dict
            Other(target) ==
               CASE target = "destination_account" ->
                       <<"destination_name", "destination", "dest_account",
                         "destination_bank", "dest_bank", "target_account", "to_account">>
                 [] target = "source_account" -> <<"source_name">>
                 [] target = "budget"         -> <<"budget_name">>
                 [] target = "category"       -> <<"category_name">>
            Present(target) == {i \in 1..Len(Other(target)) : Other(target)[i] \in DOMAIN body}
        IN  \A target \in {"destination_account", "source_account", "budget", "category"} :
               IF target \in DOMAIN body
               THEN target \in DOMAIN d /\ d[target] = body[target]
               ELSE IF Present(target) = {}
               THEN target \notin DOMAIN d
               ELSE /\ target \in DOMAIN d
                    /\ \E i \in Present(target) :
                          /\ \A j \in Present(target) : i <= j
                          /\ d[target] = body[Other(target)[i]]

\* destination_account was absent and is taken from dest_account, the first
\* present of its other names, although to_account is present too
C17_Witness ==
    /\ handlerCall.pc = "done"
    /\ "destination" \notin DOMAIN handlerCall.transaction_dict
    /\ "destination_name" \notin DOMAIN handlerCall.transaction_dict
    /\ "to_account" \in DOMAIN handlerCall.transaction_dict
    /\ "destination_account" \notin DOMAIN handlerCall.body
    /\ "destination_account" \in DOMAIN handlerCall.transaction_dict
    /\ handlerCall.transaction_dict["destination_account"] = "dest_account"

(***************************************************************************)
(* TransactionHandler.add_transaction_endpoint.  The transaction is       *)
(* created by FireflyService.add_transaction under its retry wrapper,     *)
(* modelled above; it catches every exception of its body, so its wrapper *)
(* never sleeps.                                                           *)
(***************************************************************************)

\* the fields TransactionRequest requires
TransactionRequired == {"amount", "description", "date", "source_account"}

InitTransaction ==
    /\ SchedInit
    /\ cfg = [u \in UserSet |-> ReportCfg(TRUE, TRUE, {"daily"}, <<0, 1>>, 1, 1, 1, 1)]
    /\ chk = NoCall /\ budgetReq = NoBudgetReq
    /\ wrapper = NoFrame /\ calls = <<>> /\ sleeps = <<>>
    /\ budgetCall = NoBudgetCall /\ invoked = <<>>
    /\ tx \in SUBSET TxFields
    /\ \E is_json \in BOOLEAN, well_typed \in BOOLEAN :
          handlerCall = [pc |-> "call", is_json |-> is_json, well_typed |-> well_typed,
                         out |-> NoResult]

\* the endpoint up to the call of the service: 400 for a body that is no JSON
\* or that TransactionRequest rejects
AddTransactionEndpoint ==
    /\ handlerCall.pc = "call"
    /\ IF ~handlerCall.is_json
          \/ ~(TransactionRequired \subseteq tx) \/ ~handlerCall.well_typed
       THEN /\ handlerCall' = [handlerCall EXCEPT !.pc = "done", !.out = Responds(400)]
            /\ UNCHANGED wrapper
       ELSE /\ handlerCall' = [handlerCall EXCEPT !.pc = "service"]
            /\ wrapper' = Frame("add_transaction", DefaultAttempts, DefaultDelay)
    /\ UNCHANGED <<schedVars, histVars, checkVars, calls, sleeps, tx, budgetCall, invoked,
                   budgetReq>>

\* if result: 201, else: 500; except Exception: 500
TransactionResponds ==
    /\ handlerCall.pc = "service"
    /\ wrapper.pc \in {"returned", "raised"}
    /\ handlerCall' = [handlerCall EXCEPT !.pc = "done", !.out =
          IF wrapper.pc = "raised" THEN Responds(500)
          ELSE IF DictTruthy(wrapper.out.value) THEN Responds(201)
          ELSE Responds(500)]
    /\ UNCHANGED <<schedVars, histVars, checkVars, callVars, budgetReq>>

NextTransaction == AddTransactionEndpoint \/ Attempt \/ TransactionResponds

SpecTransaction == InitTransaction /\ [][NextTransaction]_vars

\* C16: add_transaction_endpoint answers 201 only when the Ledger created the
\* transaction, 400 for a body that fails validation, and 500, never 201,
\* when the Ledger call fails with an HTTP status or a network error
C16_CreatedOnlyOnSuccess ==
    handlerCall.pc = "done" =>
        LET posted == calls # <<>>
            reply == calls[Len(calls)].io
        IN  /\ handlerCall.out.http = 201 => (posted /\ reply.kind = "ok")
            /\ ~posted => handlerCall.out.http = 400
            /\ (posted /\ reply.kind \in {"status", "network"}) => handlerCall.out.http = 500

(***************************************************************************)
(* FireflyService.get_transactions and the two AI-webhook paths that call *)
(* it: DifyHandler._handle_transactions_request and the /dify_webhook     *)
(* route of app.py.  A query is the value of its type and of its category *)
(* key, "" for a key it does not have.  A transaction is its type and the *)
(* category names of its splits.  The Ledger answers a page request with  *)
(* transactions of the requested types, with or without pagination        *)
(* metadata, whose current_page is the requested page, or with an error.  *)
(***************************************************************************)

PageLimit   == 200
MaxLastPage == 2
MaxPageLen  == 1

TxKinds ==
    {[type |-> "withdrawal", categories |-> {"food", "rent"}],
     [type |-> "deposit",    categories |-> {}],
     [type |-> "transfer",   categories |-> {"rent"}]}

Queries == [type : {"", "transfer"}, category : {"", "food"}]

\* the types a type parameter asks the Ledger for
TypesOf(type) ==
    CASE type = ""                   -> {"withdrawal", "deposit", "transfer"}
      [] type = "withdrawal,deposit" -> {"withdrawal", "deposit"}
      [] OTHER                       -> {type}

RECURSIVE SeqsUpTo(_, _)
SeqsUpTo(S, n) ==
    IF n = 0 THEN {<<>>}
    ELSE LET shorter == SeqsUpTo(S, n - 1)
         IN  shorter \cup {Append(q, x) : q \in {y \in shorter : Len(y) = n - 1}, x \in S}

\* result.get('data'), and meta.pagination or its defaults
LedgerPages(params, page) ==
    {[data |-> data, paged |-> paged, current_page |-> page, last_page |-> last,
      total |-> IF paged THEN last * PageLimit ELSE Len(data)] :
        data \in SeqsUpTo({k \in TxKinds : k.type \in TypesOf(params.type)}, MaxPageLen),
        paged \in BOOLEAN, last \in 1..MaxLastPage}

StopsOnLastPageOnly(r) ==
    IF r.paged THEN r.current_page >= r.last_page ELSE TRUE

\* if current_page >= last_page or len(page_transactions) == 0: break; without
\* pagination both default to page
Stops(r) ==
    \/ IF r.paged THEN r.current_page >= r.last_page ELSE TRUE
    \/ Len(r.data) = 0

\* the client-side filter: with a category, the transactions one of whose
\* splits has that category_name
RECURSIVE FilterCategory(_, _)
FilterCategory(transactions, category) ==
    IF category = "" \/ transactions = <<>> THEN transactions
    ELSE LET rest == FilterCategory(Tail(transactions), category)
         IN  IF category \in Head(transactions).categories
             THEN <<Head(transactions)>> \o rest
             ELSE rest

NoTransactions == [success |-> FALSE, data |-> <<>>, total_records |-> 0, filtered_count |-> 0]

\* 'type' not in query_params: query_params['type'] = 'withdrawal,deposit'
InjectType(query) ==
    IF query.type = "" THEN [query EXCEPT !.type = "withdrawal,deposit"] ELSE query

InitTransactions ==
    /\ SchedInit
    /\ cfg = [u \in UserSet |-> ReportCfg(TRUE, TRUE, {"daily"}, <<0, 1>>, 1, 1, 1, 1)]
    /\ chk = NoCall /\ CallsIdle /\ budgetReq = NoBudgetReq
    /\ \E query \in Queries :
          handlerCall = [pc |-> "call", path |-> "", query |-> query, params |-> query,
                         page |-> 0, requests |-> <<>>, responses |-> <<>>,
                         all_transactions |-> <<>>, out |-> NoTransactions]

\* get_transactions is entered with params: page = 1 before the loop
Enter(path, params) ==
    [handlerCall EXCEPT !.pc = "loop", !.path = path, !.params = params, !.page = 1]

\* DifyHandler._handle_transactions_request up to its call of get_transactions
HandleTransactionsRequest ==
    /\ handlerCall.pc = "call"
    /\ handlerCall' = Enter("dify_handler", InjectType(handlerCall.query))
    /\ UNCHANGED <<schedVars, histVars, checkVars, callVars, budgetReq>>

\* dify_webhook of app.py: query_parameters are passed on as they are
DifyWebhookRoute ==
    /\ handlerCall.pc = "call"
    /\ handlerCall' = Enter("app", handlerCall.query)
    /\ UNCHANGED <<schedVars, histVars, checkVars, callVars, budgetReq>>

\* get_transactions called by any other caller
CallGetTransactions ==
    /\ handlerCall.pc = "call"
    /\ handlerCall' = Enter("service", handlerCall.query)
    /\ UNCHANGED <<schedVars, histVars, checkVars, callVars, budgetReq>>

\* one pass of the while loop: the request carries a copy of params with page
\* and limit; an error ends the call with success False; else the page is
\* added, and the loop goes on or ends with the filtered result
FetchPage ==
    /\ handlerCall.pc = "loop"
    /\ LET request == [page |-> handlerCall.page, limit |-> PageLimit,
                       type |-> handlerCall.params.type,
                       category |-> handlerCall.params.category]
           sent == [handlerCall EXCEPT !.requests = Append(@, request)]
       IN  \/ handlerCall' = [sent EXCEPT !.pc = "done", !.out = NoTransactions]
           \/ \E r \in LedgerPages(handlerCall.params, handlerCall.page) :
                 LET all == handlerCall.all_transactions \o r.data
                     filtered_data == FilterCategory(all, handlerCall.params.category)
                 IN  handlerCall' =
                        IF Stops(r)
                        THEN [sent EXCEPT !.pc = "done", !.responses = Append(@, r),
                                 !.all_transactions = all,
                                 !.out = [success |-> TRUE, data |-> filtered_data,
                                          total_records |-> r.total,
                                          filtered_count |-> Len(filtered_data)]]
                        ELSE [sent EXCEPT !.responses = Append(@, r),
                                 !.all_transactions = all, !.page = @ + 1]
    /\ UNCHANGED <<schedVars, histVars, checkVars, callVars, budgetReq>>

NextTransactions ==
    \/ HandleTransactionsRequest
    \/ DifyWebhookRoute
    \/ CallGetTransactions
    \/ FetchPage

SpecTransactions == InitTransactions /\ [][NextTransactions]_vars /\ WF_vars(FetchPage)

\* C18: on the AI-webhook /transactions path a query without a type key goes
\* to the Ledger with type=withdrawal,deposit and a supplied type goes
\* unchanged; with the injected type no transfer is in the returned list
C18_TransfersExcludedByDefault ==
    handlerCall.path \in {"dify_handler", "app"} =>
        /\ \A i \in 1..Len(handlerCall.requests) :
              handlerCall.requests[i].type =
                 IF handlerCall.query.type = "" THEN "withdrawal,deposit"
                 ELSE handlerCall.query.type
        /\ (handlerCall.pc = "done" /\ handlerCall.query.type = "")
              => \A i \in 1..Len(handlerCall.out.data) :
                    handlerCall.out.data[i].type # "transfer"

\* the records of the pages fetched, in page order
RECURSIVE Concatenation(_)
Concatenation(pages) ==
    IF pages = <<>> THEN <<>>
    ELSE Concatenation(SubSeq(pages, 1, Len(pages) - 1)) \o pages[Len(pages)].data

\* one of the splits of the transaction has the category
HasCategory(transaction, category) ==
    \E c \in transaction.categories : c = category

\* C19: when the query has a category key no request to the Ledger carries
\* the category parameter; the category is applied client-side only, keeping a
\* transaction iff one of its splits has that category_name; filtered_count is
\* the number of kept transactions and total_records the unfiltered total
C19_CategoryNotForwarded ==
    handlerCall.query.category # "" =>
        /\ \A i \in 1..Len(handlerCall.requests) : handlerCall.requests[i].category = ""
        /\ (handlerCall.pc = "done" /\ handlerCall.out.success) =>
              LET fetched == Concatenation(handlerCall.responses)
                  kept == SelectSeq(fetched,
                             LAMBDA t : HasCategory(t, handlerCall.query.category))
              IN  /\ handlerCall.out.data = kept
                  /\ handlerCall.out.filtered_count = Len(kept)
                  /\ handlerCall.out.total_records =
                        handlerCall.responses[Len(handlerCall.responses)].total

\* the page is one the loop is to stop after: it reports a current_page that
\* is not below last_page, or no pagination at all, or it has no records
LastPage(r) ==
    \/ r.paged /\ r.current_page >= r.last_page
    \/ ~r.paged
    \/ Len(r.data) = 0

C30_EmptyKeyRejected ==
    (/\ handlerCall.pc = "done"
     /\ \/ handlerCall.config.webhook_secret = ""
        \/ handlerCall.config.webhook_secret_update = ""
     /\ \E t \in Timestamps : handlerCall.header = SignedHeader("", t, handlerCall.payload))
    => ~handlerCall.result

\* ------------------------------------------- retry_on_failure, one call ----
\* the exception of call i is an instance of the configured exception types
Configured(i) == calls[i].kind = "raise" /\ calls[i].exc.type \in RequestExceptions

\* C29: when attempt k of a wrapped function returns normally the wrapper
\* returns its value and the function has been invoked exactly k times, one
\* call after the other; an exception that is not of the configured types
\* propagates after exactly that invocation, with no sleep and no further
\* attempt
C29_ReturnAndPropagation ==
    wrapper.func = "func" =>
        /\ \A i \in 1..(Len(calls) - 1) : Configured(i)
        /\ Len(calls) <= wrapper.max_attempts
        /\ Len(calls) > 0 =>
              LET k == Len(calls)
              IN  /\ k = wrapper.attempt + (IF wrapper.pc = "try" THEN 0 ELSE 1)
                  /\ calls[k].kind = "return" =>
                        /\ wrapper.pc = "returned"
                        /\ wrapper.out = calls[k]
                        /\ Len(sleeps) = k - 1
                  /\ (calls[k].kind = "raise" /\ ~Configured(k)) =>
                        /\ wrapper.pc = "raised"
                        /\ wrapper.out = calls[k]
                        /\ Len(sleeps) = k - 1
        /\ wrapper.pc = "returned" => calls[Len(calls)].kind = "return"

\* the third attempt has returned after two failures, and in another call the
\* second attempt has raised an exception that is not configured
C29_Witness ==
    /\ wrapper.func = "func"
    /\ wrapper.pc = "returned" /\ Len(calls) = 3 /\ Len(sleeps) = 2
    /\ wrapper.max_attempts = MaxAttempts

C29_WitnessPropagates ==
    /\ wrapper.func = "func"
    /\ wrapper.pc = "raised" /\ Len(calls) = 2 /\ Len(sleeps) = 1
    /\ calls[2].exc.type = "ValueError"

\* ------------------------------------- scheduler: the recorded times ----
\* thread t is back from a delivery of key k that returned success
DeliveredBy(t, k) ==
    /\ pc[t] = "send" /\ pc'[t] # "send"
    /\ sendOk[t]
    /\ k = <<Users[ui[t]], Cadences[ci[t]]>>

\* C26: the last_check_time entry of a key is written only where the
\* Notification Handler has reported the successful delivery of that key's
\* report; when the generation returns nothing or raises, the 60-second guard
\* suppresses the report or the delivery fails, last_check_time is unchanged,
\* and a firing modifies the entry of no other key
C26_RecordedOnlyOnDelivery ==
    [][ /\ \A k \in Keys :
              last_check_time'[k] # last_check_time[k] =>
                  \E t \in Threads : DeliveredBy(t, k) /\ last_check_time'[k] = now[t]
        /\ \A t \in Threads :
              (pc[t] = "generate" /\ pc'[t] \notin {"generate", "send"}) =>
                  last_check_time' = last_check_time
        /\ \A t \in Threads :
              (pc[t] = "send" /\ pc'[t] # "send" /\ ~sendOk[t]) =>
                  last_check_time' = last_check_time
      ]_vars

\* the first user's report was handed over and its delivery failed, so nothing
\* is recorded for it; the second user's delivery in the same tick is recorded
C26_Witness ==
    /\ \E c \in CadSet : handed[<<"u1", c>>] = 1 /\ last_check_time[<<"u1", c>>] = None
    /\ last_check_time[<<"u2", "daily">>] # None
    /\ pc[1] = "sleep"

\* --------------------------------------- scheduler: the skipped period ----
\* the configured day and time of cadence c occur at the instant cur
Scheduled(c, rc, cur) ==
    /\ CadenceEnabled(c, rc)
    /\ <<HourOf(cur), MinuteOf(cur)>> =
          CASE c = "daily"   -> rc.daily_time
            [] c = "weekly"  -> rc.weekly_time
            [] c = "monthly" -> rc.monthly_time
            [] c = "yearly"  -> rc.yearly_time
    /\ c = "weekly"  => WeekdayOf(cur) = rc.weekly_day - 1
    /\ c = "monthly" => DayOf(cur) = rc.monthly_day
    /\ c = "yearly"  => MonthOf(cur) = rc.yearly_month /\ DayOf(cur) = rc.yearly_day

\* the first slot of the minute that holds t
MinuteStart(t) == t - (t % SlotsPerMinute)

\* C27: while the scheduler runs, each period in which the configured day and
\* time of an enabled cadence occur sees the report generated and handed to
\* the Notification Handler: a tick in the configured minute whose key has no
\* firing of that minute on record executes the task, so a timestamp recorded
\* at delivery time by the firing of an earlier period makes it skip no period
C27_NoPeriodSkipped ==
    \A t \in Threads :
        pc[t] = "check" =>
            LET u == Users[ui[t]]
                c == Cadences[ci[t]]
                last == last_check_time[<<u, c>>]
            IN  (/\ Scheduled(c, cfg[u], current_time[t])
                 /\ last # None
                 /\ last < MinuteStart(current_time[t]))
                => CheckReport(c, cfg[u], last, current_time[t])

\* ------------------------------------------------ scheduler: stop() ----
\* a process in which start() is called once at most, and never after a stop()
InitStop ==
    /\ SchedInit
    /\ cfg = [u \in UserSet |-> IF u = "u1"
                                THEN ReportCfg(TRUE, TRUE, {"daily"}, LastMinute, 1, 1, 1, 1)
                                ELSE ReportCfg(FALSE, TRUE, {"daily"}, <<0, 1>>, 1, 1, 1, 1)]
    /\ Idle

NextStop ==
    \/ Start /\ nthreads = 0
    \/ Stop
    \/ JoinReturns
    \/ LoopHead(1) \/ LoadUser(1) \/ Check(1) \/ Generated(1) \/ Sent(1) \/ Wake(1)
    \/ Advance

\* the loop thread goes on, calls and sleeps end, a join returns, time passes
SpecStop ==
    /\ InitStop /\ [][NextStop]_vars
    /\ WF_vars(LoopHead(1)) /\ WF_vars(LoadUser(1)) /\ WF_vars(Check(1))
    /\ WF_vars(Generated(1)) /\ WF_vars(Sent(1)) /\ WF_vars(Wake(1))
    /\ WF_vars(JoinReturns) /\ WF_vars(Advance)

\* stop() has been called after the one start()
Stopped == ~running /\ nthreads > 0

\* the longest a tick and the sleep after it take
TickSlots == Len(Users) * (MaxGenDelay + MaxSendDelay) + SleepSlots

\* C28: after stop(), with no start() after it, the loop thread ends in the
\* end, and once it has seen running false at the head of its loop it starts
\* no tick; stop() returns, also with the thread asleep or in a call of a
\* tick; a stop() of a stopped or a never-started scheduler changes nothing
C28_StopEndsTheLoop ==
    /\ (Stopped /\ clock + TickSlots <= MaxTime) ~> (pc[1] = "done")
    /\ joining ~> ~joining
    /\ [][ /\ (pc[1] = "loop" /\ ~running) => pc'[1] \in {"loop", "done"}
           /\ pc[1] = "done" => pc'[1] = "done"
           /\ (~running /\ ~running') =>
                 UNCHANGED <<scheduler_thread, nthreads>>
           /\ (~running /\ ~joining /\ joining') =>
                 UNCHANGED <<clock, cfg, running, scheduler_thread, last_check_time,
                             nthreads, pc, current_time, ui, ci, now, due, sendOk, caught>>
           /\ (nthreads = 0 /\ nthreads' = 0) => UNCHANGED <<running, joining, pc>>
         ]_vars

\* stop() was called with the thread in the delivery of a report, and the
\* thread has ended
C28_Witness ==
    /\ Stopped /\ pc[1] = "done" /\ ~joining
    /\ \E k \in Keys : last_check_time[k] # None

\* ------------------------------------------------------ SimpleMetrics ----
TimingCap  == 100     \* timing: if len(...) > 100
ExtraCalls == 2       \* timing calls of one name beyond the cap

MetricNames == {"a", "b"}
DurationPatterns == {"rising", "falling", "saw"}

\* the duration of the i-th timing call of a name
Duration(pattern, i) ==
    CASE pattern = "rising"  -> i
      [] pattern = "falling" -> TimingCap + ExtraCalls + 1 - i
      [] pattern = "saw"     -> i % 3

Min(q) == CHOOSE x \in {q[i] : i \in 1..Len(q)} : \A i \in 1..Len(q) : x <= q[i]

\* timing with pop() in the place of pop(0)
PoppedNewest(times) ==
    IF Len(times) > TimingCap THEN SubSeq(times, 1, Len(times) - 1) ELSE times

\* timing, after the append: beyond 100 samples the oldest one is dropped
Popped(times) ==
    IF Len(times) > TimingCap THEN Tail(times) ELSE times

\* get_stats: the entry of a series; a name with an empty series has none
NoStats == [avg |-> <<0, 0>>, count |-> 0, min |-> 0, max |-> 0]
StatsOf(times) ==
    IF times = <<>> THEN NoStats
    ELSE [avg |-> <<Sum(times), Len(times)>>,      \* sum(times) / len(times)
          count |-> Len(times), min |-> Min(times), max |-> Max(times)]

\* a SimpleMetrics instance used by one caller
InitMetrics ==
    /\ SchedInit
    /\ cfg = [u \in UserSet |-> ReportCfg(TRUE, TRUE, {"daily"}, <<0, 1>>, 1, 1, 1, 1)]
    /\ chk = NoCall /\ CallsIdle /\ budgetReq = NoBudgetReq
    /\ \E p \in DurationPatterns :
          handlerCall = [pc |-> "idle", pattern |-> p,
                         timings  |-> [n \in MetricNames |-> <<>>],
                         recorded |-> [n \in MetricNames |-> <<>>],
                         stats    |-> [n \in MetricNames |-> NoStats]]

\* timing(metric_name, duration)
Timing ==
    /\ \E n \in MetricNames :
          LET d == Duration(handlerCall.pattern, Len(handlerCall.recorded[n]) + 1)
          IN  /\ Len(handlerCall.recorded[n]) < TimingCap + ExtraCalls
              /\ handlerCall' =
                    [handlerCall EXCEPT !.pc = "idle",
                                        !.timings[n] = Popped(Append(@, d)),
                                        !.recorded[n] = Append(@, d),
                                        !.stats = [m \in MetricNames |-> NoStats]]
    /\ UNCHANGED <<schedVars, histVars, checkVars, callVars, budgetReq>>

\* get_stats()
GetStats ==
    /\ handlerCall.pc = "idle"
    /\ handlerCall' =
          [handlerCall EXCEPT !.pc = "stats",
                              !.stats = [n \in MetricNames |-> StatsOf(handlerCall.timings[n])]]
    /\ UNCHANGED <<schedVars, histVars, checkVars, callVars, budgetReq>>

NextMetrics == Timing \/ GetStats

SpecMetrics == InitMetrics /\ [][NextMetrics]_vars

\* the most recent min(n, 100) of the durations recorded for a name
MostRecent(recorded) ==
    LET m == IF Len(recorded) < 100 THEN Len(recorded) ELSE 100
    IN  SubSeq(recorded, Len(recorded) - m + 1, Len(recorded))

MaxIncrements == 1    \* increment calls of one thread

MetricThreads == {1, 2}

\* the timing calls a thread makes: the first one fills the series and goes
\* beyond the cap, the second one makes a single call
TimingCalls(t) == IF t = 1 THEN TimingCap + ExtraCalls ELSE 1

\* the duration of the i-th timing call of thread t
ThreadDuration(t, i) == IF t = 1 THEN i ELSE 0

IdleThread == [pc |-> "idle", tmp |-> 0, value |-> 0]

\* with self._lock entered whether or not the lock is held
AcquirableAlways(m) == m.lock = m.lock

\* with self._lock: the lock is taken only while no thread holds it
Acquirable(m) == m.lock = 0

InitMetricsThreads ==
    /\ SchedInit
    /\ cfg = [u \in UserSet |-> ReportCfg(TRUE, TRUE, {"daily"}, <<0, 1>>, 1, 1, 1, 1)]
    /\ chk = NoCall /\ CallsIdle /\ budgetReq = NoBudgetReq
    /\ handlerCall = [pc |-> "threads", counters |-> 0, timings |-> <<>>, lock |-> 0,
                      th |-> [t \in MetricThreads |-> IdleThread],
                      ntimings |-> [t \in MetricThreads |-> 0],
                      nincrements |-> [t \in MetricThreads |-> 0],
                      acquired |-> <<>>, passed |-> 0, observed |-> 0]

\* increment, up to the read of the counter: the lock is taken and
\* self._counters[metric_name] is read
EnterIncrement(t) ==
    /\ handlerCall.th[t].pc = "idle"
    /\ handlerCall.nincrements[t] < MaxIncrements
    /\ Acquirable(handlerCall)
    /\ handlerCall' = [handlerCall EXCEPT !.lock = t,
                                          !.th[t] = [pc |-> "increment",
                                                     tmp |-> handlerCall.counters,
                                                     value |-> t],
                                          !.nincrements[t] = @ + 1,
                                          !.passed = @ + t]
    /\ UNCHANGED <<schedVars, histVars, checkVars, callVars, budgetReq>>

\* increment, the rest: the sum is stored and the lock released
ExitIncrement(t) ==
    /\ handlerCall.th[t].pc = "increment"
    /\ handlerCall' = [handlerCall EXCEPT !.lock = 0,
                                          !.counters = handlerCall.th[t].tmp
                                                       + handlerCall.th[t].value,
                                          !.th[t] = IdleThread]
    /\ UNCHANGED <<schedVars, histVars, checkVars, callVars, budgetReq>>

\* timing, up to the append: the lock is taken and the duration appended
EnterTiming(t) ==
    /\ handlerCall.th[t].pc = "idle"
    /\ handlerCall.ntimings[t] < TimingCalls(t)
    /\ Acquirable(handlerCall)
    /\ LET d == ThreadDuration(t, handlerCall.ntimings[t] + 1)
       IN  handlerCall' = [handlerCall EXCEPT !.lock = t,
                                              !.th[t] = [pc |-> "timing", tmp |-> 0,
                                                         value |-> d],
                                              !.timings = Append(@, d),
                                              !.acquired = Append(@, d),
                                              !.ntimings[t] = @ + 1]
    /\ UNCHANGED <<schedVars, histVars, checkVars, callVars, budgetReq>>

\* timing, the rest: the oldest sample is dropped beyond the cap, and the lock
\* released
ExitTiming(t) ==
    /\ handlerCall.th[t].pc = "timing"
    /\ handlerCall' = [handlerCall EXCEPT !.lock = 0,
                                          !.timings = Popped(@),
                                          !.th[t] = IdleThread]
    /\ UNCHANGED <<schedVars, histVars, checkVars, callVars, budgetReq>>

\* get_stats in a thread, under the lock, called once the series is full: the
\* longest series it has seen
ThreadGetStats(t) ==
    /\ handlerCall.th[t].pc = "idle"
    /\ Acquirable(handlerCall)
    /\ Len(handlerCall.timings) >= TimingCap
    /\ handlerCall.observed < Len(handlerCall.timings)
    /\ handlerCall' = [handlerCall EXCEPT !.observed = StatsOf(handlerCall.timings).count]
    /\ UNCHANGED <<schedVars, histVars, checkVars, callVars, budgetReq>>

NextMetricsThreads ==
    \/ \E t \in MetricThreads : EnterIncrement(t)
    \/ \E t \in MetricThreads : ExitIncrement(t)
    \/ \E t \in MetricThreads : EnterTiming(t)
    \/ \E t \in MetricThreads : ExitTiming(t)
    \/ \E t \in MetricThreads : ThreadGetStats(t)

SpecMetricsThreads == InitMetricsThreads /\ [][NextMetricsThreads]_vars

\* every call has completed
Quiescent == \A t \in MetricThreads : handlerCall.th[t].pc = "idle"

\* C22: for any interleaving of the increment and timing calls of several
\* threads no update is lost: once all calls have completed the counter is
\* the sum of the values passed to increment and the series holds the last
\* min(n, 100) samples in the order in which the calls took the lock;
\* get_stats never sees a series longer than 100
C22_NoLostUpdate ==
    /\ handlerCall.observed <= 100
    /\ Quiescent =>
          /\ handlerCall.counters = handlerCall.passed
          /\ handlerCall.timings = MostRecent(handlerCall.acquired)

\* both threads have incremented and the series is beyond its cap with the
\* second thread's sample in it; get_stats has seen a full series
C22_Witness ==
    /\ Quiescent
    /\ \A t \in MetricThreads : handlerCall.nincrements[t] = MaxIncrements
    /\ Len(handlerCall.acquired) > TimingCap
    /\ \E i \in 1..Len(handlerCall.timings) : handlerCall.timings[i] = 0
    /\ handlerCall.observed = TimingCap

\* ------------------------------------------------------ ReportService ----
\* the methods of FireflyService
FireflyServiceMethods ==
    {"get_budget_limits", "_get_budget_limits_by_id", "_get_budget_limits_from_all",
     "_get_available_budgets", "add_transaction", "get_transactions"}

\* the prompt each generate_<cadence>_report has in its text, which is not
\* the <cadence>_prompt of the user's ReportConfig
LiteralPrompt(report_type) == <<"literal", report_type>>

\* what the Workflow Integration Service can answer
DifyResults == { [success |-> TRUE,  message |-> "report"],
                 [success |-> TRUE,  message |-> "not a report"],
                 [success |-> FALSE, message |-> "error"] }

NoReport == [kind |-> "none", value |-> "", invoked |-> <<>>]

\* _is_valid_financial_report
IsValidFinancialReport(content) == content = "report"

\* _call_dify_api: the fallback report without an enabled Workflow
\* configuration, else generate_financial_report with the transaction data,
\* and its message when it is a report, else the fallback report
CallDifyApi(user_config, prompt, context_data, report_type, result) ==
    IF ~user_config.dify_enabled
    THEN [kind |-> "return", value |-> "fallback", invoked |-> <<>>]
    ELSE [kind |-> "return",
          value |-> IF result.success /\ IsValidFinancialReport(result.message)
                    THEN result.message ELSE "fallback",
          invoked |-> << [report_type |-> report_type, report_query |-> prompt,
                          transaction_data |-> context_data] >>]

\* generate_daily_report .. generate_yearly_report: None without a
\* report_config or with the cadence switched off; else the transaction summary
\* is asked of the FireflyService, and with one the report of _call_dify_api is
\* returned
GenerateReport(report_type, user_config, data, result) ==
    IF ~user_config.report_config \/ ~CadenceEnabled(report_type, user_config)
    THEN [NoReport EXCEPT !.kind = "return", !.value = "None"]
    ELSE IF "get_transactions_summary" \notin FireflyServiceMethods
    THEN [NoReport EXCEPT !.kind = "raise", !.value = "AttributeError"]
    ELSE IF data = "None"
    THEN [NoReport EXCEPT !.kind = "return", !.value = "None"]
    ELSE CallDifyApi(user_config, LiteralPrompt(report_type), data, report_type, result)

InitReport ==
    /\ SchedInit
    /\ cfg = [u \in UserSet |-> ReportCfg(TRUE, TRUE, {"daily"}, <<0, 1>>, 1, 1, 1, 1)]
    /\ chk = NoCall /\ CallsIdle /\ budgetReq = NoBudgetReq
    /\ \E c \in CadSet, dify \in BOOLEAN, rep \in BOOLEAN, on \in SUBSET CadSet,
          d \in {"None", "summary"}, r \in DifyResults :
          handlerCall = [pc |-> "call", report_type |-> c,
                         user_config |-> ReportCfg(dify, rep, on, <<0, 1>>, 1, 1, 1, 1),
                         data |-> d, result |-> r, out |-> NoReport]

\* generate_<cadence>_report(user_config)
CallGenerateReport ==
    /\ handlerCall.pc = "call"
    /\ handlerCall' = [handlerCall EXCEPT
                          !.pc = "done",
                          !.out = GenerateReport(handlerCall.report_type,
                                                 handlerCall.user_config,
                                                 handlerCall.data, handlerCall.result)]
    /\ UNCHANGED <<schedVars, histVars, checkVars, callVars, budgetReq>>

NextReport == CallGenerateReport

SpecReport == InitReport /\ [][NextReport]_vars

\* the cadence of the call is switched on in user_config
EnabledIn(user_config, report_type) ==
    \/ report_type = "daily"   /\ user_config.daily_enabled
    \/ report_type = "weekly"  /\ user_config.weekly_enabled
    \/ report_type = "monthly" /\ user_config.monthly_enabled
    \/ report_type = "yearly"  /\ user_config.yearly_enabled

\* C23: generate_<cadence>_report returns no report when report_config is
\* absent or the cadence is switched off; else it invokes the Workflow
\* Integration Service exactly once, with the cadence's configured prompt of
\* ReportConfig as the query and no transaction data, and returns the
\* service's result unchanged
C23_PromptOnlyReport ==
    handlerCall.pc = "done" =>
        IF ~handlerCall.user_config.report_config
           \/ ~EnabledIn(handlerCall.user_config, handlerCall.report_type)
        THEN handlerCall.out.kind = "return" /\ handlerCall.out.value = "None"
             /\ handlerCall.out.invoked = <<>>
        ELSE /\ handlerCall.out.kind = "return"
             /\ Len(handlerCall.out.invoked) = 1
             /\ handlerCall.out.invoked[1].report_query
                   = <<"report_config", handlerCall.report_type>>
             /\ handlerCall.out.invoked[1].transaction_data = "None"
             /\ handlerCall.out.value = handlerCall.result.message

\* ------------------------------------- the webhook notification message ----
\* A text is a sequence of pieces: the characters of an amount, one by one,
\* and the fixed parts of the message, each as one piece.

\* the amounts of a payload that pass float(amount), as Python prints the
\* float: 12.5, -12.5, 1e16, "1e-5", None (0.0) and "inf"
AmountTexts ==
    { <<"1", "2", ".", "5">>, <<"-", "1", "2", ".", "5">>,
      <<"1", "e", "+", "1", "6">>, <<"1", "e", "-", "0", "5">>,
      <<"0", ".", "0">>, <<"i", "n", "f">> }

\* [\d,.]
AmountClass == {"0", "1", "2", "3", "4", "5", "6", "7", "8", "9", ",", "."}

\* amount_patterns: what each pattern starts with, and whether the
\* replacement keeps it
amount_patterns ==
    << <<"feiyong:", TRUE>>, <<"jine:", TRUE>>, <<"yue:", TRUE>>, <<"gongzi:", TRUE>>,
       <<"yen", FALSE>>, <<"fullwidth yen", FALSE>>, <<"$", FALSE>>, <<"euro", FALSE>> >>

\* the text after the longest run of [\d,.] it starts with
RECURSIVE AfterRun(_)
AfterRun(text) ==
    IF text # <<>> /\ Head(text) \in AmountClass THEN AfterRun(Tail(text)) ELSE text

\* re.sub(pattern, replacement, text) of one pattern: each start of the
\* pattern that is followed by at least one of [\d,.] is replaced together with
\* the run of them; (\.[\d]+)? finds nothing after the run
RECURSIVE Sub(_, _, _)
Sub(pattern, filter_value, text) ==
    IF text = <<>> THEN <<>>
    ELSE IF Head(text) = pattern[1] /\ Tail(text) # <<>> /\ text[2] \in AmountClass
    THEN (IF pattern[2] THEN <<pattern[1], filter_value>> ELSE <<filter_value>>)
         \o Sub(pattern, filter_value, AfterRun(Tail(text)))
    ELSE <<Head(text)>> \o Sub(pattern, filter_value, Tail(text))

\* filter_message: the patterns are applied one after the other
RECURSIVE FilterFrom(_, _)
FilterFrom(i, text) ==
    IF i > Len(amount_patterns) THEN text
    ELSE FilterFrom(i + 1, Sub(amount_patterns[i], "[FILTERED]", text))
FilterMessage(message) == FilterFrom(1, message)

\* build_notification_message: the opening of the trigger, the description,
\* the amount, the category and the budget
BuildNotificationMessage(transaction_info) ==
    << CASE transaction_info.trigger = "UPDATE_TRANSACTION" -> "updated:"
         [] transaction_info.trigger = "STORE_TRANSACTION"  -> "stored:"
         [] OTHER                                           -> "operation:",
       "description", ", ", "feiyong:" >>
    \o transaction_info.amount
    \o << ", category:", "category_name", ", budget:", "budget_name", "." >>

\* build_safe_notification_message
BuildSafeNotificationMessage(transaction_info) ==
    FilterMessage(BuildNotificationMessage(transaction_info))

\* two accepted payloads that differ in the amount of the first transaction
InitMessage ==
    /\ SchedInit
    /\ cfg = [u \in UserSet |-> ReportCfg(TRUE, TRUE, {"daily"}, <<0, 1>>, 1, 1, 1, 1)]
    /\ chk = NoCall /\ CallsIdle /\ budgetReq = NoBudgetReq
    /\ \E tr \in valid_triggers, a1 \in AmountTexts, a2 \in AmountTexts :
          handlerCall = [pc |-> "call", trigger |-> tr, amounts |-> <<a1, a2>>,
                         message |-> << <<>>, <<>> >>, safe |-> << <<>>, <<>> >>]

\* both messages of both payloads are built
BuildMessages ==
    /\ handlerCall.pc = "call"
    /\ LET info(i) == [trigger |-> handlerCall.trigger, amount |-> handlerCall.amounts[i]]
       IN  handlerCall' =
              [handlerCall EXCEPT
                  !.pc = "done",
                  !.message = <<BuildNotificationMessage(info(1)),
                                BuildNotificationMessage(info(2))>>,
                  !.safe = <<BuildSafeNotificationMessage(info(1)),
                             BuildSafeNotificationMessage(info(2))>>]
    /\ UNCHANGED <<schedVars, histVars, checkVars, callVars, budgetReq>>

NextMessage == BuildMessages

SpecMessage == InitMessage /\ [][NextMessage]_vars

\* the text holds the pieces of part, one after the other
Holds(text, part) ==
    \E i \in 0..(Len(text) - Len(part)) : SubSeq(text, i + 1, i + Len(part)) = part

\* C24: the log variant of the notification message does not depend on the
\* amount: for two accepted payloads that differ only in the amount of the
\* first transaction (negative amounts and amounts in exponent notation
\* included) build_safe_notification_message returns the same text, with the
\* amount replaced by [FILTERED], while build_notification_message holds the
\* amount
C24_LogMessageHidesAmount ==
    handlerCall.pc = "done" =>
        /\ handlerCall.safe[1] = handlerCall.safe[2]
        /\ \A i \in 1..2 :
              /\ Holds(handlerCall.safe[i], <<"feiyong:", "[FILTERED]", ", category:">>)
              /\ Holds(handlerCall.message[i],
                       <<"feiyong:">> \o handlerCall.amounts[i] \o <<", category:">>)

\* -------------------------------------------- the user configuration store ----
MaxTokenLen == 7      \* pieces of a firefly_access_token

\* A token is a sequence of pieces; "Bearer " is the three pieces Bear, er
\* and a blank, and no other sequence of pieces reads "Bearer ".
TokenPieces  == {"Bear", "er", " "}
BearerPrefix == <<"Bear", "er", " ">>
TokenTexts   == SeqsUpTo(TokenPieces, MaxTokenLen)

\* v.replace('Bearer ', ''): every occurrence, from the left, is taken out
RECURSIVE ReplaceBearer(_)
ReplaceBearer(v) ==
    IF v = <<>> THEN <<>>
    ELSE IF Len(v) >= 3 /\ SubSeq(v, 1, 3) = BearerPrefix
    THEN ReplaceBearer(SubSeq(v, 4, Len(v)))
    ELSE <<Head(v)>> \o ReplaceBearer(Tail(v))

\* v.strip()
RECURSIVE Strip(_)
Strip(v) ==
    IF v = <<>> THEN <<>>
    ELSE IF Head(v) = " " THEN Strip(Tail(v))
    ELSE IF v[Len(v)] = " " THEN Strip(SubSeq(v, 1, Len(v) - 1))
    ELSE v

\* validate_token: whether it raises, and what it returns
TokenRejected(v) == v = <<>> \/ Strip(v) = <<>>
ValidateToken(v) == Strip(ReplaceBearer(v))

\* what is stored under a user's file name: no file, a file that is not JSON,
\* JSON that is no object, or an object, of which the model keeps whether it
\* has the required keys, whether it has a user_id key, its token and, as one
\* value, its other fields
NoFile == [kind |-> "missing", complete |-> FALSE, has_user_id |-> FALSE,
           firefly_access_token |-> <<>>, rest |-> ""]
StoredFiles ==
    {NoFile} \cup
    [kind : {"garbage", "nonobject", "object"}, complete : BOOLEAN, has_user_id : BOOLEAN,
     firefly_access_token : {<<>>, <<" ">>, <<"er">>, <<"Bear", "er", " ", "er">>},
     rest : {"r1"}]

NoConfig == [user_id |-> "", firefly_access_token |-> <<>>, rest |-> ""]
NoneConfig == [kind |-> "return", is |-> "None", config |-> NoConfig]

\* UserConfig(**config_data): ValidationError without a required key or with
\* a token validate_token rejects, else the model with the validated token
NewUserConfig(user_id, token, rest, complete) ==
    IF ~complete \/ TokenRejected(token)
    THEN [kind |-> "raise", is |-> "ValidationError", config |-> NoConfig]
    ELSE [kind |-> "return", is |-> "UserConfig",
          config |-> [user_id |-> user_id, firefly_access_token |-> ValidateToken(token),
                      rest |-> rest]]

\* get_user_config: None without the file; json.load raises JSONDecodeError,
\* config_data['user_id'] = user_id raises TypeError on what is no object, and
\* UserConfig raises ValidationError, all three caught and answered with None
ReadUserConfig(file, user_id) ==
    IF file.kind # "object" THEN NoneConfig
    ELSE LET made == NewUserConfig(user_id, file.firefly_access_token, file.rest,
                                   file.complete)
         IN  IF made.kind = "raise" THEN NoneConfig ELSE made

\* save_user_config: model_dump without user_id, written as JSON
WriteUserConfig(config) ==
    [kind |-> "object", complete |-> TRUE, has_user_id |-> FALSE,
     firefly_access_token |-> config.firefly_access_token, rest |-> config.rest]

\* the configurations a caller can hold: those UserConfig(...) returns
UserConfigs ==
    { NewUserConfig("u1", v, r, TRUE).config :
         v \in {w \in TokenTexts : ~TokenRejected(w)}, r \in {"r1", "r2"} }

\* a get of what is stored, or a save of a configuration followed by a get
InitStore ==
    /\ SchedInit
    /\ cfg = [u \in UserSet |-> ReportCfg(TRUE, TRUE, {"daily"}, <<0, 1>>, 1, 1, 1, 1)]
    /\ chk = NoCall /\ CallsIdle /\ budgetReq = NoBudgetReq
    /\ \/ \E f \in StoredFiles :
             handlerCall = [pc |-> "get", file |-> f, c |-> NoConfig, saved |-> "no",
                            out |-> [kind |-> "none", is |-> "", config |-> NoConfig]]
       \/ \E c \in UserConfigs :
             handlerCall = [pc |-> "save", file |-> NoFile, c |-> c, saved |-> "no",
                            out |-> [kind |-> "none", is |-> "", config |-> NoConfig]]

\* save_user_config(config): True with the file written, False when writing
\* raised
SaveUserConfig ==
    /\ handlerCall.pc = "save"
    /\ \/ handlerCall' = [handlerCall EXCEPT !.pc = "get", !.saved = "True",
                                             !.file = WriteUserConfig(handlerCall.c)]
       \/ handlerCall' = [handlerCall EXCEPT !.pc = "get", !.saved = "False"]
    /\ UNCHANGED <<schedVars, histVars, checkVars, callVars, budgetReq>>

\* get_user_config(user_id)
CallGetUserConfig ==
    /\ handlerCall.pc = "get"
    /\ handlerCall' = [handlerCall EXCEPT !.pc = "done",
                                          !.out = ReadUserConfig(handlerCall.file, "u1")]
    /\ UNCHANGED <<schedVars, histVars, checkVars, callVars, budgetReq>>

NextStore == SaveUserConfig \/ CallGetUserConfig

SpecStore == InitStore /\ [][NextStore]_vars

\* the token is empty or blanks only
Blank(v) == \A i \in 1..Len(v) : v[i] = " "

\* C25: get(user_id) returns absent, without raising, when the user's file is
\* missing, is not valid JSON or fails the validation of UserConfig (an empty
\* or whitespace-only firefly_access_token, say); and after a save(c) that
\* returned success, with no other writer, get(c.user_id) returns a
\* configuration equal to c in every field, the stored record holding no
\* user_id
C25_StoreRoundTrip ==
    handlerCall.pc = "done" =>
        /\ handlerCall.out.kind = "return"
        /\ (\/ handlerCall.file.kind \in {"missing", "garbage"}
            \/ handlerCall.file.kind = "object"
               /\ (~handlerCall.file.complete \/ Blank(handlerCall.file.firefly_access_token)))
           => handlerCall.out.is = "None"
        /\ handlerCall.saved = "True" =>
              /\ handlerCall.out.is = "UserConfig"
              /\ handlerCall.out.config = handlerCall.c
              /\ ~handlerCall.file.has_user_id

====
